---- MODULE Spec2Model ----
(***************************************************************************)
(* Model of the VSP repository: the two instance loaders (MDVSP and VSP    *)
(* feasibility-matrix builders), the instance validation, and the two      *)
(* constructive schedulers (Concurrent Schedule for MDVSP, the ordered     *)
(* insertion heuristic for VSP).                                           *)
(*                                                                         *)
(* Costs are float64 in the source; every value that occurs is an integer  *)
(* far below 2^53, so they are modelled as integers.  Optional[float] is   *)
(* modelled as a sequence: << >> is None, <<c>> is the value c.            *)
(***************************************************************************)
EXTENDS Integers, Sequences, FiniteSets, TLC

VARIABLES
    pc,                 \* position of the driver (load, solve loop, end)
    entrada,            \* contents of the .cst / .tim files being loaded
    instancia,          \* MDVSPData / VSPData built by the loader
    solucion,           \* SolucionMDVSP / SolucionVSP under construction
    viajes_pendientes,  \* resolver: set of pending trips (MDVSP)
    iteraciones,        \* resolver: loop iterations (MDVSP)
    estrategia,         \* resolver: the ordering strategy (VSP)
    servicios_ordenados,\* resolver: the services in processing order (VSP)
    procesados,         \* resolver: services processed so far (VSP)
    punto_entrada,      \* the VSP entry point the caller invoked
    indice_estrategia,  \* resolver_con_multiples_estrategias: strategies tried
    mejor_solucion,     \* resolver_con_multiples_estrategias: best solution so far
    corridas,           \* the outcome of each run of the multi-strategy loop
    solucion_previa     \* the caller: what an earlier call of resolver returned

vars == <<pc, entrada, instancia, solucion, viajes_pendientes, iteraciones,
          estrategia, servicios_ordenados, procesados,
          punto_entrada, indice_estrategia, mejor_solucion, corridas,
          solucion_previa>>

\* the locals of the MDVSP resolver and of the VSP resolver
vars_mdvsp == <<viajes_pendientes, iteraciones>>
vars_vsp == <<estrategia, servicios_ordenados, procesados>>
\* the locals of resolver_con_multiples_estrategias
vars_multi == <<punto_entrada, indice_estrategia, mejor_solucion, corridas>>

----------------------------------------------------------------------------
(* Program constants *)

\* the sentinel of an infeasible arc
INFACTIBLE == 100000000

----------------------------------------------------------------------------
(* Bounds of the input files that are enumerated *)

\* MDVSP files: start and end times of a trip are drawn from 0..MaxTiempo
MaxTiempo == 1
\* VSP files: start and end times of a service are drawn from 0..MaxTiempoVSP
MaxTiempoVSP == 3
\* VSP files: the depot has 1..MaxVehiculos vehicles
MaxVehiculos == 2
\* the cost written in the unaltered cells of a cost file
CostoBase == 1

\* the costs the altered cell of a cost file may hold
CostosAlterados == {0, INFACTIBLE, 0 - 1}
\* MDVSP files: the trip ids
IdsViajes == {0, 1, 2}
\* VSP files: the service ids of the enumerated timetables
IdsServicios == {0, 1}
\* MDVSP files: the vehicles of each depot (one entry per depot)
Flotas == {<<1>>, <<2>>, <<1, 1>>}

----------------------------------------------------------------------------
(* Helpers for Python values *)

None == << >>
Some(x) == <<x>>

RECURSIVE SumSeq(_)
SumSeq(s) == IF s = << >> THEN 0 ELSE Head(s) + SumSeq(Tail(s))

RECURSIVE MinSeq(_)
MinSeq(s) == IF Len(s) = 1 THEN s[1]
             ELSE LET m == MinSeq(Tail(s)) IN IF s[1] <= m THEN s[1] ELSE m

\* a list.insert that overwrites the entry at posicion instead of shifting
InsertReemplaza(s, posicion, x) ==
    IF posicion < Len(s) THEN [s EXCEPT ![posicion + 1] = x] ELSE Append(s, x)

\* an insert that puts x first and the entries after posicion before the
\* entries up to it
InsertGirando(s, posicion, x) ==
    <<x>> \o SubSeq(s, posicion + 1, Len(s)) \o SubSeq(s, 1, posicion)

\* list.insert(posicion, x) with 0 <= posicion <= len(list)
Insert(s, posicion, x) ==
    SubSeq(s, 1, posicion) \o <<x>> \o SubSeq(s, posicion + 1, Len(s))

----------------------------------------------------------------------------
(* Input files *)

Celdas(dim) == (0..(dim - 1)) \X (0..(dim - 1))

\* the square matrices a .cst file of dimension dim may hold: CostoBase in
\* every cell, or in every cell but one
MatricesBase(dim) ==
    {[i \in 0..(dim - 1) |-> [j \in 0..(dim - 1) |-> CostoBase]]}
    \cup {[i \in 0..(dim - 1) |-> [j \in 0..(dim - 1) |->
              IF <<i, j>> = c THEN x ELSE CostoBase]]
          : c \in Celdas(dim), x \in CostosAlterados}

\* the cost files whose matrix has one row and column too few, or one too
\* many, for the counts of the first line
MatricesMalDimensionadas(dim) ==
    {[i \in 0..(d - 1) |-> [j \in 0..(d - 1) |-> CostoBase]] : d \in {dim - 1, dim + 1}}

\* the (start, end) pairs a .tim file may hold for one trip
Ventanas(max) == {v \in (0..max) \X (0..max) : v[1] <= v[2]}

----------------------------------------------------------------------------
(* MDVSP loader: MDVSPDataLoader *)

\* _leer_matriz_costos raises: the file does not hold dimension * dimension
\* values (the file holds the cells of a square matrix)
LeerMatrizCostosFalla(matriz, dimension) ==
    Cardinality(DOMAIN matriz) * Cardinality(DOMAIN matriz) # dimension * dimension

\* _cargar_archivo_tim: trip i gets the i-th start and the i-th end time
CargarArchivoTim(tiempos) ==
    [i \in DOMAIN tiempos |->
        [id_viaje |-> i, tiempo_inicio |-> tiempos[i][1], tiempo_fin |-> tiempos[i][2]]]

\* _construir_matriz_costos_completa: the loop classifies a cell by comparing
\* its indices with numero_depositos (depots first, trips after them)
ConstruirMatrizCostosCompleta(matriz_base, numero_depositos, viajes, numero_viajes) ==
    LET dimension_matriz == numero_depositos + numero_viajes
    IN [i \in 0..(dimension_matriz - 1) |-> [j \in 0..(dimension_matriz - 1) |->
         IF i < numero_depositos /\ j < numero_depositos
         THEN INFACTIBLE
         ELSE IF i < numero_depositos /\ j >= numero_depositos
         THEN matriz_base[i][j]
         ELSE IF i >= numero_depositos /\ j < numero_depositos
         THEN matriz_base[i][j]
         ELSE IF i # j
         THEN LET viaje_i == viajes[i - numero_depositos]
                  viaje_j == viajes[j - numero_depositos]
                  tiempo_desplazamiento == matriz_base[i][j]
              IN IF tiempo_desplazamiento >= INFACTIBLE
                 THEN INFACTIBLE
                 ELSE IF viaje_i.tiempo_fin + tiempo_desplazamiento <= viaje_j.tiempo_inicio
                      THEN matriz_base[i][j]
                      ELSE INFACTIBLE
         ELSE matriz_base[i][j]]]

----------------------------------------------------------------------------
(* MDVSP instance: MDVSPData *)

\* Viaje.__post_init__ accepts the trip
ViajeValido(viaje) == ~(viaje.tiempo_inicio > viaje.tiempo_fin)

\* MDVSPData._validar_matriz_costos accepts the matrix
ValidarMatrizCostos(matriz, numero_viajes, numero_depositos) ==
    LET dimension_esperada == numero_viajes + numero_depositos
    IN /\ DOMAIN matriz = 0..(dimension_esperada - 1)
       /\ \A i \in DOMAIN matriz :
            /\ DOMAIN matriz[i] = 0..(dimension_esperada - 1)
            /\ \A j \in DOMAIN matriz[i] :
                 matriz[i][j] >= 0 \/ matriz[i][j] = INFACTIBLE

\* MDVSPData.obtener_costo
ObtenerCosto(inst, origen, destino) == inst.matriz_viajes[origen][destino]

\* MDVSPDataLoader.cargar_instancia: the instance built from the files
InstanciaMDVSP(ent) ==
    LET numero_viajes == ent.numero_viajes
        numero_depositos == Len(ent.vehiculos)
        viajes == CargarArchivoTim(ent.tiempos)
    IN [numero_depositos |-> numero_depositos,
        numero_viajes |-> numero_viajes,
        depositos |-> [d \in 0..(numero_depositos - 1) |->
                         [id_deposito |-> d, numero_vehiculos |-> ent.vehiculos[d + 1]]],
        viajes |-> viajes,
        matriz_viajes |-> ConstruirMatrizCostosCompleta(
                              ent.matriz_base, numero_depositos, viajes, numero_viajes)]

\* cargar_instancia raises (a validation of the loader or of MDVSPData fails)
CargaMDVSPFalla(ent) ==
    LET inst == InstanciaMDVSP(ent)
    IN IF LeerMatrizCostosFalla(ent.matriz_base, ent.numero_viajes + Len(ent.vehiculos))
       THEN TRUE
       ELSE \/ \E i \in DOMAIN inst.viajes : ~ViajeValido(inst.viajes[i])
            \/ ~ValidarMatrizCostos(inst.matriz_viajes, inst.numero_viajes,
                                    inst.numero_depositos)

----------------------------------------------------------------------------
(* MDVSP solution model: Ruta, SolucionMDVSP *)

\* Ruta.es_vacia
EsVacia(ruta) == Len(ruta.viajes) = 0

\* Ruta.agregar_viaje
AgregarViaje(ruta, id_viaje, costo_adicional, tiempo_inicio_viaje, tiempo_fin_viaje) ==
    [ruta EXCEPT
        !.viajes = Append(@, id_viaje),
        !.costo_total = @ + costo_adicional,
        !.tiempo_inicio = IF @ = None \/ tiempo_inicio_viaje < @[1]
                          THEN Some(tiempo_inicio_viaje) ELSE @,
        !.tiempo_fin = IF @ = None \/ tiempo_fin_viaje > @[1]
                       THEN Some(tiempo_fin_viaje) ELSE @]

\* a calcular_metricas that compares with <= where the code compares with ==
CalcularMetricasLaxa(sol, numero_total_viajes) ==
    [sol EXCEPT
        !.costo_total = SumSeq([k \in DOMAIN sol.rutas |-> sol.rutas[k].costo_total]),
        !.numero_vehiculos_usados =
            Cardinality({k \in DOMAIN sol.rutas : Len(sol.rutas[k].viajes) # 0}),
        !.es_factible = (Cardinality(sol.viajes_asignados) <= numero_total_viajes)]

\* SolucionMDVSP.calcular_metricas
CalcularMetricas(sol, numero_total_viajes) ==
    [sol EXCEPT
        !.costo_total = SumSeq([k \in DOMAIN sol.rutas |-> sol.rutas[k].costo_total]),
        !.numero_vehiculos_usados =
            Cardinality({k \in DOMAIN sol.rutas : ~EsVacia(sol.rutas[k])}),
        !.es_factible = (Cardinality(sol.viajes_asignados) = numero_total_viajes)]

----------------------------------------------------------------------------
(* MDVSP scheduler: ConcurrentScheduleAlgorithm *)

\* _inicializar_solucion: one empty route per vehicle, depot by depot
RECURSIVE RutasIniciales(_, _)
RutasIniciales(inst, d) ==
    IF d = inst.numero_depositos THEN << >>
    ELSE [k \in 1..inst.depositos[d].numero_vehiculos |->
             [id_deposito |-> d, viajes |-> << >>, costo_total |-> 0,
              tiempo_inicio |-> None, tiempo_fin |-> None]]
         \o RutasIniciales(inst, d + 1)

InicializarSolucion(inst) ==
    [rutas |-> RutasIniciales(inst, 0),
     viajes_asignados |-> {},
     costo_total |-> 0,
     numero_vehiculos_usados |-> 0,
     es_factible |-> FALSE]

\* an _es_factible_temporalmente that compares with < and > where the code
\* compares with <= and >=
EsFactibleTemporalmenteEstricta(inst, viaje_nuevo, viaje_referencia, posicion) ==
    LET viaje_ref_obj == inst.viajes[viaje_referencia]
    IN IF posicion = "antes"
       THEN viaje_nuevo.tiempo_fin < viaje_ref_obj.tiempo_inicio
       ELSE IF posicion = "despues"
       THEN viaje_nuevo.tiempo_inicio > viaje_ref_obj.tiempo_fin
       ELSE FALSE

\* _es_factible_temporalmente
EsFactibleTemporalmente(inst, viaje_nuevo, viaje_referencia, posicion) ==
    LET viaje_ref_obj == inst.viajes[viaje_referencia]
    IN IF posicion = "antes"
       THEN viaje_nuevo.tiempo_fin <= viaje_ref_obj.tiempo_inicio
       ELSE IF posicion = "despues"
       THEN viaje_nuevo.tiempo_inicio >= viaje_ref_obj.tiempo_fin
       ELSE FALSE

\* _calcular_mejor_insercion: the candidates the three blocks accept, in order
CandidatosInsercion(inst, ruta, viaje) ==
    LET indice_nuevo_viaje == viaje.id_viaje
        indice_deposito == inst.numero_viajes + ruta.id_deposito
        n == Len(ruta.viajes)
        primer_viaje == ruta.viajes[1]
        ultimo_viaje == ruta.viajes[n]
        costo_inicio == ObtenerCosto(inst, indice_deposito, indice_nuevo_viaje)
                        + ObtenerCosto(inst, indice_nuevo_viaje, primer_viaje)
                        - ObtenerCosto(inst, indice_deposito, primer_viaje)
        costo_insercion(i) ==
            ObtenerCosto(inst, ruta.viajes[i], indice_nuevo_viaje)
            + ObtenerCosto(inst, indice_nuevo_viaje, ruta.viajes[i + 1])
            - ObtenerCosto(inst, ruta.viajes[i], ruta.viajes[i + 1])
        costo_final == ObtenerCosto(inst, ultimo_viaje, indice_nuevo_viaje)
                       + ObtenerCosto(inst, indice_nuevo_viaje, indice_deposito)
                       - ObtenerCosto(inst, ultimo_viaje, indice_deposito)
        inicio == IF /\ EsFactibleTemporalmente(inst, viaje, primer_viaje, "antes")
                     /\ costo_inicio # INFACTIBLE
                  THEN <<costo_inicio>> ELSE << >>
        medio[i \in 1..n] ==
            IF i = n THEN << >>
            ELSE (IF /\ EsFactibleTemporalmente(inst, viaje, ruta.viajes[i], "despues")
                     /\ EsFactibleTemporalmente(inst, viaje, ruta.viajes[i + 1], "antes")
                     /\ costo_insercion(i) # INFACTIBLE
                  THEN <<costo_insercion(i)>> ELSE << >>) \o medio[i + 1]
        final == IF /\ EsFactibleTemporalmente(inst, viaje, ultimo_viaje, "despues")
                    /\ costo_final # INFACTIBLE
                 THEN <<costo_final>> ELSE << >>
    IN inicio \o medio[1] \o final

\* _calcular_mejor_insercion
CalcularMejorInsercion(inst, ruta, viaje) ==
    LET candidatos == CandidatosInsercion(inst, ruta, viaje)
    IN IF candidatos = << >> THEN None ELSE Some(MinSeq(candidatos))

\* _calcular_costo_asignacion
CalcularCostoAsignacion(inst, ruta, viaje) ==
    LET indice_viaje == viaje.id_viaje
        indice_deposito == inst.numero_viajes + ruta.id_deposito
        costo_ida == ObtenerCosto(inst, indice_deposito, indice_viaje)
        costo_vuelta == ObtenerCosto(inst, indice_viaje, indice_deposito)
    IN IF EsVacia(ruta)
       THEN IF costo_ida = INFACTIBLE \/ costo_vuelta = INFACTIBLE
            THEN None
            ELSE Some(costo_ida + costo_vuelta)
       ELSE CalcularMejorInsercion(inst, ruta, viaje)

\* an _encontrar_mejor_asignacion that compares with <= where the code
\* compares with <, so that the last pair of least cost wins
RECURSIVE MejorAsignacionUltima(_, _, _, _, _, _)
MejorAsignacionUltima(inst, sol, pendientes, id_viaje, id_ruta, mejor) ==
    IF id_viaje >= inst.numero_viajes THEN mejor
    ELSE IF id_viaje \notin pendientes \/ id_ruta >= Len(sol.rutas)
    THEN MejorAsignacionUltima(inst, sol, pendientes, id_viaje + 1, 0, mejor)
    ELSE LET costo_asignacion ==
                 CalcularCostoAsignacion(inst, sol.rutas[id_ruta + 1], inst.viajes[id_viaje])
             nuevo == IF /\ costo_asignacion # None
                         /\ (mejor = None \/ costo_asignacion[1] <= mejor[1][3])
                      THEN Some(<<id_viaje, id_ruta, costo_asignacion[1]>>)
                      ELSE mejor
         IN MejorAsignacionUltima(inst, sol, pendientes, id_viaje, id_ruta + 1, nuevo)

\* _encontrar_mejor_asignacion: pending trips in iteration order (ascending
\* ids), routes by ascending index; a pair replaces the best one only when
\* strictly cheaper.  The result is None or <<(id_viaje, id_ruta, costo)>>.
RECURSIVE MejorAsignacionDesde(_, _, _, _, _, _)
MejorAsignacionDesde(inst, sol, pendientes, id_viaje, id_ruta, mejor) ==
    IF id_viaje >= inst.numero_viajes THEN mejor
    ELSE IF id_viaje \notin pendientes \/ id_ruta >= Len(sol.rutas)
    THEN MejorAsignacionDesde(inst, sol, pendientes, id_viaje + 1, 0, mejor)
    ELSE LET costo_asignacion ==
                 CalcularCostoAsignacion(inst, sol.rutas[id_ruta + 1], inst.viajes[id_viaje])
             nuevo == IF /\ costo_asignacion # None
                         /\ (mejor = None \/ costo_asignacion[1] < mejor[1][3])
                      THEN Some(<<id_viaje, id_ruta, costo_asignacion[1]>>)
                      ELSE mejor
         IN MejorAsignacionDesde(inst, sol, pendientes, id_viaje, id_ruta + 1, nuevo)

EncontrarMejorAsignacion(inst, sol, pendientes) ==
    MejorAsignacionDesde(inst, sol, pendientes, 0, 0, None)

\* _calcular_incremento_costo_posicion (posicion is 0-based)
CalcularIncrementoCostoPosicion(inst, ruta, viaje, posicion) ==
    LET indice_nuevo_viaje == viaje.id_viaje
        indice_deposito == inst.numero_viajes + ruta.id_deposito
        n == Len(ruta.viajes)
    IN IF posicion = 0
       THEN IF n = 0 THEN Some(0)
            ELSE IF ~EsFactibleTemporalmente(inst, viaje, ruta.viajes[1], "antes")
            THEN None
            ELSE Some(ObtenerCosto(inst, indice_deposito, indice_nuevo_viaje)
                      + ObtenerCosto(inst, indice_nuevo_viaje, ruta.viajes[1])
                      - ObtenerCosto(inst, indice_deposito, ruta.viajes[1]))
       ELSE IF posicion = n
       THEN IF ~EsFactibleTemporalmente(inst, viaje, ruta.viajes[n], "despues")
            THEN None
            ELSE Some(ObtenerCosto(inst, ruta.viajes[n], indice_nuevo_viaje)
                      + ObtenerCosto(inst, indice_nuevo_viaje, indice_deposito)
                      - ObtenerCosto(inst, ruta.viajes[n], indice_deposito))
       ELSE LET viaje_anterior == ruta.viajes[posicion]
                viaje_siguiente == ruta.viajes[posicion + 1]
            IN IF \/ ~EsFactibleTemporalmente(inst, viaje, viaje_anterior, "despues")
                  \/ ~EsFactibleTemporalmente(inst, viaje, viaje_siguiente, "antes")
               THEN None
               ELSE Some(ObtenerCosto(inst, viaje_anterior, indice_nuevo_viaje)
                         + ObtenerCosto(inst, indice_nuevo_viaje, viaje_siguiente)
                         - ObtenerCosto(inst, viaje_anterior, viaje_siguiente))

\* _encontrar_mejor_posicion_insercion: positions 0..len, the first one of
\* strictly smallest increment; 0 when no position has an increment
RECURSIVE MejorPosicionDesde(_, _, _, _, _, _)
MejorPosicionDesde(inst, ruta, viaje, pos, mejor_posicion, menor_incremento) ==
    IF pos > Len(ruta.viajes) THEN mejor_posicion
    ELSE LET incremento_costo == CalcularIncrementoCostoPosicion(inst, ruta, viaje, pos)
         IN IF /\ incremento_costo # None
               /\ (menor_incremento = None \/ incremento_costo[1] < menor_incremento[1])
            THEN MejorPosicionDesde(inst, ruta, viaje, pos + 1, pos, incremento_costo)
            ELSE MejorPosicionDesde(inst, ruta, viaje, pos + 1, mejor_posicion, menor_incremento)

\* the search, had it always answered the end of the route
EncontrarMejorPosicionInsercionAlFinal(inst, ruta, viaje) ==
    Len(ruta.viajes)

EncontrarMejorPosicionInsercion(inst, ruta, viaje) ==
    MejorPosicionDesde(inst, ruta, viaje, 0, 0, None)

\* _asignar_viaje_a_ruta
AsignarViajeARuta(inst, sol, id_viaje, id_ruta, costo_asignacion) ==
    LET ruta == sol.rutas[id_ruta + 1]
        viaje == inst.viajes[id_viaje]
        mejor_posicion == EncontrarMejorPosicionInsercion(inst, ruta, viaje)
        nueva == IF EsVacia(ruta)
                 THEN AgregarViaje(ruta, id_viaje, costo_asignacion,
                                   viaje.tiempo_inicio, viaje.tiempo_fin)
                 ELSE [ruta EXCEPT
                         !.viajes = Insert(@, mejor_posicion, id_viaje),
                         !.costo_total = @ + costo_asignacion,
                         !.tiempo_inicio = IF viaje.tiempo_inicio < @[1]
                                           THEN Some(viaje.tiempo_inicio) ELSE @,
                         !.tiempo_fin = IF viaje.tiempo_fin > @[1]
                                        THEN Some(viaje.tiempo_fin) ELSE @]
    IN [sol EXCEPT !.rutas[id_ruta + 1] = nueva,
                   !.viajes_asignados = @ \cup {id_viaje}]

----------------------------------------------------------------------------
(* The MDVSP run: cargar_instancia, then resolver *)

\* what the driver holds before an instance or a solution exists
Ninguna == [nada |-> TRUE]

EntradasMDVSP ==
    UNION { [numero_viajes : {Cardinality(IdsViajes)},
             vehiculos : {flota},
             tiempos : [IdsViajes -> Ventanas(MaxTiempo)],
             matriz_base : MatricesBase(Cardinality(IdsViajes) + Len(flota))
                           \cup MatricesMalDimensionadas(
                                    Cardinality(IdsViajes) + Len(flota))]
            : flota \in Flotas }

InitMDVSP ==
    /\ pc = "cargar_mdvsp"
    /\ entrada \in EntradasMDVSP
    /\ instancia = Ninguna
    /\ solucion = Ninguna
    /\ viajes_pendientes = {}
    /\ iteraciones = 0
    /\ estrategia = "tiempo_inicio"
    /\ servicios_ordenados = << >>
    /\ procesados = 0
    /\ punto_entrada = "resolver"
    /\ indice_estrategia = 0
    /\ mejor_solucion = None
    /\ corridas = << >>
    /\ solucion_previa = None

\* MDVSPDataLoader.cargar_instancia returns the instance
CargarInstanciaMDVSP ==
    /\ pc = "cargar_mdvsp"
    /\ ~CargaMDVSPFalla(entrada)
    /\ instancia' = InstanciaMDVSP(entrada)
    /\ pc' = "resolver_mdvsp"
    /\ UNCHANGED <<solucion_previa, entrada, solucion, viajes_pendientes, iteraciones, vars_vsp, vars_multi>>

\* MDVSPDataLoader.cargar_instancia raises ValueError
CargarInstanciaMDVSPError ==
    /\ pc = "cargar_mdvsp"
    /\ CargaMDVSPFalla(entrada)
    /\ pc' = "error_carga"
    /\ UNCHANGED <<solucion_previa, entrada, instancia, solucion, viajes_pendientes, iteraciones, vars_vsp, vars_multi>>

\* resolver, up to the loop
ResolverInicio ==
    /\ pc = "resolver_mdvsp"
    /\ solucion' = InicializarSolucion(instancia)
    /\ viajes_pendientes' = 0..(instancia.numero_viajes - 1)
    /\ iteraciones' = 0
    /\ pc' = "ciclo"
    /\ UNCHANGED <<solucion_previa, entrada, instancia, vars_vsp, vars_multi>>

\* the caller invokes resolver again on the same scheduler object and the
\* same instance: resolver, up to the loop
ResolverOtraVez ==
    /\ pc = "retorno_mdvsp"
    /\ solucion_previa = None
    /\ solucion_previa' = Some(solucion)
    /\ solucion' = InicializarSolucion(instancia)
    /\ viajes_pendientes' = 0..(instancia.numero_viajes - 1)
    /\ iteraciones' = 0
    /\ pc' = "ciclo"
    /\ UNCHANGED <<entrada, instancia, vars_vsp, vars_multi>>

\* an iteration that commits the best pair and leaves its trip in the
\* pending set (no viajes_pendientes.remove)
IteracionAsignaSinQuitar ==
    /\ pc = "ciclo"
    /\ viajes_pendientes # {}
    /\ LET mejor_asignacion == EncontrarMejorAsignacion(instancia, solucion, viajes_pendientes)
       IN /\ mejor_asignacion # None
          /\ solucion' = AsignarViajeARuta(instancia, solucion, mejor_asignacion[1][1],
                                           mejor_asignacion[1][2], mejor_asignacion[1][3])
    /\ iteraciones' = iteraciones + 1
    /\ UNCHANGED <<solucion_previa, pc, entrada, instancia, viajes_pendientes, vars_vsp, vars_multi>>

\* one iteration of the loop that commits the best pair
IteracionAsigna ==
    /\ pc = "ciclo"
    /\ viajes_pendientes # {}
    /\ LET mejor_asignacion == EncontrarMejorAsignacion(instancia, solucion, viajes_pendientes)
       IN /\ mejor_asignacion # None
          /\ solucion' = AsignarViajeARuta(instancia, solucion, mejor_asignacion[1][1],
                                           mejor_asignacion[1][2], mejor_asignacion[1][3])
          /\ viajes_pendientes' = viajes_pendientes \ {mejor_asignacion[1][1]}
    /\ iteraciones' = iteraciones + 1
    /\ UNCHANGED <<solucion_previa, pc, entrada, instancia, vars_vsp, vars_multi>>

\* one iteration that finds no pair: break
IteracionSinAsignacion ==
    /\ pc = "ciclo"
    /\ viajes_pendientes # {}
    /\ EncontrarMejorAsignacion(instancia, solucion, viajes_pendientes) = None
    /\ iteraciones' = iteraciones + 1
    /\ pc' = "finalizar"
    /\ UNCHANGED <<solucion_previa, entrada, instancia, solucion, viajes_pendientes, vars_vsp, vars_multi>>

\* the loop condition is false
CicloTermina ==
    /\ pc = "ciclo"
    /\ viajes_pendientes = {}
    /\ pc' = "finalizar"
    /\ UNCHANGED <<solucion_previa, entrada, instancia, solucion, viajes_pendientes, iteraciones, vars_vsp, vars_multi>>

\* resolver, after the loop: calcular_metricas and return
Finalizar ==
    /\ pc = "finalizar"
    /\ solucion' = CalcularMetricas(solucion, instancia.numero_viajes)
    /\ pc' = "retorno_mdvsp"
    /\ UNCHANGED <<solucion_previa, entrada, instancia, viajes_pendientes, iteraciones, vars_vsp, vars_multi>>

\* the steps of the load and of one call of resolver
PasoMDVSP ==
    \/ CargarInstanciaMDVSP
    \/ CargarInstanciaMDVSPError
    \/ ResolverInicio
    \/ IteracionAsigna
    \/ IteracionSinAsignacion
    \/ CicloTermina
    \/ Finalizar

NextMDVSP ==
    \/ PasoMDVSP
    \/ ResolverOtraVez

SpecMDVSP == InitMDVSP /\ [][NextMDVSP]_vars

\* the load and one call of resolver, run as one thread until it returns or
\* raises: a step of the program that can be taken is taken (whether the
\* caller then calls resolver again is up to the caller)
SpecMDVSPJusta == InitMDVSP /\ [][PasoMDVSP]_vars /\ WF_vars(PasoMDVSP)

----------------------------------------------------------------------------
(* VSP loader: VSPDataLoader *)

\* the test, had it only asked whether the other service starts within
\* this one
SeTraslapaConDesdeDentro(servicio, otro_servicio) ==
    /\ servicio.tiempo_inicio <= otro_servicio.tiempo_inicio
    /\ otro_servicio.tiempo_inicio < servicio.tiempo_fin

\* Servicio.se_traslapa_con
SeTraslapaCon(servicio, otro_servicio) ==
    ~(\/ servicio.tiempo_fin <= otro_servicio.tiempo_inicio
      \/ otro_servicio.tiempo_fin <= servicio.tiempo_inicio)

\* Servicio.puede_preceder_a
PuedePrecederA(servicio, otro_servicio) ==
    servicio.tiempo_fin <= otro_servicio.tiempo_inicio

\* Servicio.duracion
Duracion(servicio) == servicio.tiempo_fin - servicio.tiempo_inicio

\* _cargar_archivo_tim (VSP)
CargarArchivoTimVSP(tiempos) ==
    [i \in DOMAIN tiempos |->
        [id_servicio |-> i, tiempo_inicio |-> tiempos[i][1], tiempo_fin |-> tiempos[i][2]]]

\* _es_factible_secuencia_temporal, as a truth value: the function returns
\* False for a sentinel travel time and ends there, so every other call
\* returns None, which the caller's "not" reads as false
EsFactibleSecuenciaTemporal(servicio_origen, servicio_destino, tiempo_desplazamiento) ==
    IF tiempo_desplazamiento >= INFACTIBLE THEN FALSE ELSE FALSE

\* a body of the double loop whose first rule writes the cell (i, j) alone
ConstruirCeldaVSPUnaDireccion(matriz_final, servicios, numero_servicios, i, j) ==
    LET indice_deposito == numero_servicios
    IN IF matriz_final[i][j] = 0 \/ matriz_final[i][j] >= INFACTIBLE
       THEN [matriz_final EXCEPT ![i][j] = INFACTIBLE]
       ELSE IF i = indice_deposito /\ j = indice_deposito
       THEN [matriz_final EXCEPT ![i][j] = INFACTIBLE]
       ELSE IF i = j /\ i < numero_servicios
       THEN [matriz_final EXCEPT ![i][j] = INFACTIBLE]
       ELSE IF i < numero_servicios /\ j < numero_servicios /\ i # j
       THEN IF SeTraslapaCon(servicios[i], servicios[j])
            THEN [[matriz_final EXCEPT ![i][j] = INFACTIBLE] EXCEPT ![j][i] = INFACTIBLE]
            ELSE IF ~EsFactibleSecuenciaTemporal(servicios[i], servicios[j],
                                                 matriz_final[i][j])
            THEN [matriz_final EXCEPT ![i][j] = INFACTIBLE]
            ELSE matriz_final
       ELSE matriz_final

\* one pass of the body of the double loop of _construir_matriz_vsp, on the
\* matrix as the earlier cells left it
ConstruirCeldaVSP(matriz_final, servicios, numero_servicios, i, j) ==
    LET indice_deposito == numero_servicios
    IN IF matriz_final[i][j] = 0 \/ matriz_final[i][j] >= INFACTIBLE
       THEN [[matriz_final EXCEPT ![i][j] = INFACTIBLE] EXCEPT ![j][i] = INFACTIBLE]
       ELSE IF i = indice_deposito /\ j = indice_deposito
       THEN [matriz_final EXCEPT ![i][j] = INFACTIBLE]
       ELSE IF i = j /\ i < numero_servicios
       THEN [matriz_final EXCEPT ![i][j] = INFACTIBLE]
       ELSE IF i < numero_servicios /\ j < numero_servicios /\ i # j
       THEN IF SeTraslapaCon(servicios[i], servicios[j])
            THEN [[matriz_final EXCEPT ![i][j] = INFACTIBLE] EXCEPT ![j][i] = INFACTIBLE]
            ELSE IF ~EsFactibleSecuenciaTemporal(servicios[i], servicios[j],
                                                 matriz_final[i][j])
            THEN [matriz_final EXCEPT ![i][j] = INFACTIBLE]
            ELSE matriz_final
       ELSE matriz_final

\* the double loop, row by row, from cell number k on
RECURSIVE ConstruirDesdeVSP(_, _, _, _)
ConstruirDesdeVSP(matriz_final, servicios, numero_servicios, k) ==
    LET dimension_matriz == numero_servicios + 1
    IN IF k >= dimension_matriz * dimension_matriz THEN matriz_final
       ELSE ConstruirDesdeVSP(
                ConstruirCeldaVSP(matriz_final, servicios, numero_servicios,
                                  k \div dimension_matriz, k % dimension_matriz),
                servicios, numero_servicios, k + 1)

\* _construir_matriz_vsp
ConstruirMatrizVSP(matriz_base, servicios, numero_servicios) ==
    ConstruirDesdeVSP(matriz_base, servicios, numero_servicios, 0)

\* min() of a non-empty list of costs
Minimo(costos) == CHOOSE c \in costos : \A otro \in costos : c <= otro

\* a conversion that reads the legs of the first MDVSP depot alone
ConvertirMatrizSoloPrimerDeposito(matriz_mdvsp, numero_depositos, numero_viajes) ==
    LET indice_deposito_vsp == numero_viajes
    IN [i \in 0..numero_viajes |-> [j \in 0..numero_viajes |->
           IF i < numero_viajes /\ j < numero_viajes THEN matriz_mdvsp[i][j]
           ELSE IF i = indice_deposito_vsp /\ j = indice_deposito_vsp THEN INFACTIBLE
           ELSE IF i = indice_deposito_vsp
           THEN IF matriz_mdvsp[numero_viajes][j] < INFACTIBLE
                THEN matriz_mdvsp[numero_viajes][j] ELSE INFACTIBLE
           ELSE IF matriz_mdvsp[i][numero_viajes] < INFACTIBLE
                THEN matriz_mdvsp[i][numero_viajes] ELSE INFACTIBLE]]

\* _convertir_matriz_mdvsp_a_vsp: a new matrix, the argument is only read
ConvertirMatrizMDVSPAVSP(matriz_mdvsp, numero_depositos, numero_viajes) ==
    LET indice_deposito_vsp == numero_viajes
        costos_depositos_a_servicio(servicio) ==
            {matriz_mdvsp[numero_viajes + dep][servicio] :
                 dep \in {d \in 0..(numero_depositos - 1) :
                              matriz_mdvsp[numero_viajes + d][servicio] < INFACTIBLE}}
        costos_servicio_a_depositos(servicio) ==
            {matriz_mdvsp[servicio][numero_viajes + dep] :
                 dep \in {d \in 0..(numero_depositos - 1) :
                              matriz_mdvsp[servicio][numero_viajes + d] < INFACTIBLE}}
    IN [i \in 0..numero_viajes |-> [j \in 0..numero_viajes |->
           IF i < numero_viajes /\ j < numero_viajes THEN matriz_mdvsp[i][j]
           ELSE IF i = indice_deposito_vsp /\ j = indice_deposito_vsp THEN INFACTIBLE
           ELSE IF i = indice_deposito_vsp
           THEN IF costos_depositos_a_servicio(j) # {}
                THEN Minimo(costos_depositos_a_servicio(j)) ELSE INFACTIBLE
           ELSE IF costos_servicio_a_depositos(i) # {}
                THEN Minimo(costos_servicio_a_depositos(i)) ELSE INFACTIBLE]]

----------------------------------------------------------------------------
(* VSP instance: VSPData *)

\* Servicio.__post_init__ accepts the service
ServicioValido(servicio) == ~(servicio.tiempo_inicio >= servicio.tiempo_fin)

\* VSPData._validar_datos accepts the data
ValidarDatos(numero_servicios, servicios, matriz_costos) ==
    LET dimension_esperada == numero_servicios + 1
    IN /\ numero_servicios > 0
       /\ DOMAIN servicios = 0..(numero_servicios - 1)
       /\ DOMAIN matriz_costos = 0..(dimension_esperada - 1)
       /\ \A i \in DOMAIN matriz_costos :
             DOMAIN matriz_costos[i] = 0..(dimension_esperada - 1)
       /\ \A i \in DOMAIN servicios : \A j \in DOMAIN servicios :
             i < j => ~SeTraslapaCon(servicios[i], servicios[j])

\* one pass of the body of the double loop of _aplicar_restricciones_conexion
AplicarCelda(matriz_costos, i, j) ==
    IF matriz_costos[i][j] = 0 \/ matriz_costos[i][j] >= INFACTIBLE
    THEN [[matriz_costos EXCEPT ![i][j] = INFACTIBLE] EXCEPT ![j][i] = INFACTIBLE]
    ELSE matriz_costos

RECURSIVE AplicarDesde(_, _, _)
AplicarDesde(matriz_costos, dim, k) ==
    IF k >= dim * dim THEN matriz_costos
    ELSE AplicarDesde(AplicarCelda(matriz_costos, k \div dim, k % dim), dim, k + 1)

\* VSPData._aplicar_restricciones_conexion
AplicarRestriccionesConexion(matriz_costos, numero_servicios) ==
    AplicarDesde(matriz_costos, numero_servicios + 1, 0)

\* VSPDataLoader.cargar_instancia: the instance built from the files
InstanciaVSP(ent) ==
    LET servicios == CargarArchivoTimVSP(ent.tiempos)
    IN [numero_servicios |-> ent.numero_servicios,
        deposito |-> [id_deposito |-> 0, numero_vehiculos |-> ent.numero_vehiculos],
        servicios |-> servicios,
        matriz_costos |-> AplicarRestriccionesConexion(
                              ConstruirMatrizVSP(ent.matriz_base, servicios,
                                                 ent.numero_servicios),
                              ent.numero_servicios)]

\* cargar_instancia_desde_archivos on a .cst file in the MDVSP format: the
\* matrix is folded to one depot, which gets the vehicles of all the depots
InstanciaVSPDesdeArchivos(ent) ==
    LET servicios == CargarArchivoTimVSP(ent.tiempos)
    IN [numero_servicios |-> ent.numero_servicios,
        deposito |-> [id_deposito |-> 0, numero_vehiculos |-> SumSeq(ent.vehiculos)],
        servicios |-> servicios,
        matriz_costos |-> AplicarRestriccionesConexion(
                              ConstruirMatrizVSP(
                                  ConvertirMatrizMDVSPAVSP(ent.matriz_base,
                                                           Len(ent.vehiculos),
                                                           ent.numero_servicios),
                                  servicios, ent.numero_servicios),
                              ent.numero_servicios)]

\* VSPData(...) on the caller's services and matrix: __post_init__
InstanciaVSPDirecta(ent) ==
    [numero_servicios |-> ent.numero_servicios,
     deposito |-> [id_deposito |-> 0, numero_vehiculos |-> ent.numero_vehiculos],
     servicios |-> CargarArchivoTimVSP(ent.tiempos),
     matriz_costos |-> AplicarRestriccionesConexion(ent.matriz_base,
                                                    ent.numero_servicios)]

\* cargar_instancia raises (the loader, Servicio or VSPData rejects the data)
CargaVSPFalla(ent) ==
    LET servicios == CargarArchivoTimVSP(ent.tiempos)
    IN IF ent.via = "archivos"
       THEN IF LeerMatrizCostosFalla(ent.matriz_base,
                                     Len(ent.vehiculos) + ent.numero_servicios)
            THEN TRUE
            ELSE \/ \E i \in DOMAIN servicios : ~ServicioValido(servicios[i])
                 \/ ~ValidarDatos(ent.numero_servicios, servicios,
                                  ConvertirMatrizMDVSPAVSP(ent.matriz_base,
                                                           Len(ent.vehiculos),
                                                           ent.numero_servicios))
       ELSE \/ /\ ent.via = "cargador"
               /\ LeerMatrizCostosFalla(ent.matriz_base, ent.numero_servicios + 1)
            \/ \E i \in DOMAIN servicios : ~ServicioValido(servicios[i])
            \/ ~ValidarDatos(ent.numero_servicios, servicios, ent.matriz_base)

\* VSPData.es_conexion_factible
EsConexionFactible(inst, servicio_origen, servicio_destino) ==
    IF servicio_origen = servicio_destino THEN FALSE
    ELSE LET costo == inst.matriz_costos[servicio_origen][servicio_destino]
             servicio_o == inst.servicios[servicio_origen]
             servicio_d == inst.servicios[servicio_destino]
         IN IF costo = INFACTIBLE \/ costo = 0 THEN FALSE
            ELSE PuedePrecederA(servicio_o, servicio_d)
                 /\ ~SeTraslapaCon(servicio_o, servicio_d)

\* VSPData.obtener_costo_conexion
ObtenerCostoConexion(inst, servicio_origen, servicio_destino) ==
    IF ~EsConexionFactible(inst, servicio_origen, servicio_destino)
    THEN INFACTIBLE
    ELSE inst.matriz_costos[servicio_origen][servicio_destino]

\* VSPData.obtener_costo_desde_deposito
ObtenerCostoDesdeDeposito(inst, servicio) ==
    inst.matriz_costos[inst.numero_servicios][servicio]

\* VSPData.obtener_costo_hacia_deposito
ObtenerCostoHaciaDeposito(inst, servicio) ==
    inst.matriz_costos[servicio][inst.numero_servicios]

\* VSPData.validar_secuencia_servicios (the flag of the returned tuple)
ValidarSecuenciaServicios(inst, secuencia) ==
    IF Len(secuencia) <= 1 THEN TRUE
    ELSE /\ \A i \in 1..(Len(secuencia) - 1) :
               EsConexionFactible(inst, secuencia[i], secuencia[i + 1])
         /\ Cardinality({secuencia[i] : i \in DOMAIN secuencia}) = Len(secuencia)

\* VSPData.calcular_costo_secuencia: None or <<costo>>
CalcularCostoSecuencia(inst, secuencia) ==
    IF secuencia = << >> THEN Some(0)
    ELSE IF ~ValidarSecuenciaServicios(inst, secuencia) THEN None
    ELSE LET costo_inicial == ObtenerCostoDesdeDeposito(inst, secuencia[1])
             conexiones == [i \in 1..(Len(secuencia) - 1) |->
                               ObtenerCostoConexion(inst, secuencia[i], secuencia[i + 1])]
             costo_final == ObtenerCostoHaciaDeposito(inst, secuencia[Len(secuencia)])
         IN IF \/ costo_inicial >= INFACTIBLE
               \/ \E i \in DOMAIN conexiones : conexiones[i] >= INFACTIBLE
               \/ costo_final >= INFACTIBLE
            THEN None
            ELSE Some(costo_inicial + SumSeq(conexiones) + costo_final)

----------------------------------------------------------------------------
(* VSP solution model: RutaVSP, SolucionVSP *)

\* RutaVSP.es_vacia
EsVaciaVSP(ruta) == Len(ruta.servicios) = 0

\* RutaVSP.agregar_servicio
AgregarServicio(ruta, id_servicio, costo_adicional, tiempo_inicio_servicio, tiempo_fin_servicio) ==
    [ruta EXCEPT
        !.servicios = Append(@, id_servicio),
        !.costo_total = @ + costo_adicional,
        !.tiempo_inicio_ruta = IF @ = None \/ tiempo_inicio_servicio < @[1]
                               THEN Some(tiempo_inicio_servicio) ELSE @,
        !.tiempo_fin_ruta = IF @ = None \/ tiempo_fin_servicio > @[1]
                            THEN Some(tiempo_fin_servicio) ELSE @]

\* RutaVSP.insertar_servicio
InsertarServicio(ruta, posicion, id_servicio, incremento_costo, tiempo_inicio_servicio, tiempo_fin_servicio) ==
    [ruta EXCEPT
        !.servicios = Insert(@, posicion, id_servicio),
        !.costo_total = @ + incremento_costo,
        !.tiempo_inicio_ruta = IF @ = None \/ tiempo_inicio_servicio < @[1]
                               THEN Some(tiempo_inicio_servicio) ELSE @,
        !.tiempo_fin_ruta = IF @ = None \/ tiempo_fin_servicio > @[1]
                            THEN Some(tiempo_fin_servicio) ELSE @]

\* SolucionVSP.calcular_metricas (the makespan is not modelled)
CalcularMetricasVSP(sol, numero_servicios_instancia) ==
    [sol EXCEPT
        !.numero_servicios_total = numero_servicios_instancia,
        !.costo_total = SumSeq([k \in DOMAIN sol.rutas |-> sol.rutas[k].costo_total]),
        !.numero_vehiculos_usados =
            Cardinality({k \in DOMAIN sol.rutas : ~EsVaciaVSP(sol.rutas[k])}),
        !.es_factible =
            (Cardinality(sol.servicios_asignados) = numero_servicios_instancia)]

----------------------------------------------------------------------------
(* VSP scheduler: VSPConstructiveAlgorithm *)

Estrategias == {"tiempo_inicio", "tiempo_fin", "duracion", "mixta"}

\* a strategy name a caller may pass that _ordenar_servicios does not know
EstrategiasDesconocidas == {"aleatoria"}

\* the sort key of _ordenar_servicios, as a pair compared lexicographically
ClaveOrden(inst, criterio, i) ==
    LET servicio == inst.servicios[i]
    IN IF criterio = "tiempo_inicio" THEN <<servicio.tiempo_inicio, 0>>
       ELSE IF criterio = "tiempo_fin" THEN <<servicio.tiempo_fin, 0>>
       ELSE IF criterio = "duracion" THEN <<Duracion(servicio), 0>>
       ELSE <<servicio.tiempo_inicio, Duracion(servicio)>>

ClaveMenor(a, b) == a[1] < b[1] \/ (a[1] = b[1] /\ a[2] < b[2])

\* _ordenar_servicios: the else branch raises ValueError
OrdenarServiciosFalla(criterio) == criterio \notin Estrategias

\* the sort, had it put the services of equal keys in descending id
OrdenarServiciosInestable(inst, criterio) ==
    LET n == inst.numero_servicios
        antes(i, j) ==
            \/ ClaveMenor(ClaveOrden(inst, criterio, i), ClaveOrden(inst, criterio, j))
            \/ /\ ClaveOrden(inst, criterio, i) = ClaveOrden(inst, criterio, j)
               /\ i > j
        rango(i) == Cardinality({j \in 0..(n - 1) : antes(j, i)})
    IN [k \in 1..n |-> CHOOSE i \in 0..(n - 1) : rango(i) = k - 1]

\* _ordenar_servicios: sorted() is stable, so equal keys keep ascending ids
OrdenarServicios(inst, criterio) ==
    LET n == inst.numero_servicios
        antes(i, j) ==
            \/ ClaveMenor(ClaveOrden(inst, criterio, i), ClaveOrden(inst, criterio, j))
            \/ /\ ClaveOrden(inst, criterio, i) = ClaveOrden(inst, criterio, j)
               /\ i < j
        rango(i) == Cardinality({j \in 0..(n - 1) : antes(j, i)})
    IN [k \in 1..n |-> CHOOSE i \in 0..(n - 1) : rango(i) = k - 1]

\* _calcular_costo_insercion_final
CalcularCostoInsercionFinal(inst, ruta, id_servicio) ==
    IF EsVaciaVSP(ruta)
    THEN LET costo_ida == ObtenerCostoDesdeDeposito(inst, id_servicio)
             costo_vuelta == ObtenerCostoHaciaDeposito(inst, id_servicio)
         IN IF costo_ida >= INFACTIBLE \/ costo_vuelta >= INFACTIBLE
            THEN None ELSE Some(costo_ida + costo_vuelta)
    ELSE LET ultimo_servicio == ruta.servicios[Len(ruta.servicios)]
             costo_original == ObtenerCostoHaciaDeposito(inst, ultimo_servicio)
             costo_conexion == ObtenerCostoConexion(inst, ultimo_servicio, id_servicio)
             costo_regreso == ObtenerCostoHaciaDeposito(inst, id_servicio)
         IN IF \/ costo_conexion >= INFACTIBLE
               \/ costo_regreso >= INFACTIBLE
               \/ costo_original >= INFACTIBLE
            THEN None ELSE Some(costo_conexion + costo_regreso - costo_original)

\* _calcular_costo_insercion_inicio
CalcularCostoInsercionInicio(inst, ruta, id_servicio) ==
    LET primer_servicio == ruta.servicios[1]
        costo_original == ObtenerCostoDesdeDeposito(inst, primer_servicio)
        costo_ida == ObtenerCostoDesdeDeposito(inst, id_servicio)
        costo_conexion == ObtenerCostoConexion(inst, id_servicio, primer_servicio)
    IN IF \/ costo_ida >= INFACTIBLE
          \/ costo_conexion >= INFACTIBLE
          \/ costo_original >= INFACTIBLE
       THEN None ELSE Some(costo_ida + costo_conexion - costo_original)

\* a _calcular_costo_insercion_medio that does not subtract the arc it removes
CalcularCostoInsercionMedioSinResta(inst, ruta, id_servicio, posicion) ==
    LET servicio_anterior == ruta.servicios[posicion]
        servicio_siguiente == ruta.servicios[posicion + 1]
        costo_original == ObtenerCostoConexion(inst, servicio_anterior, servicio_siguiente)
        costo_entrada == ObtenerCostoConexion(inst, servicio_anterior, id_servicio)
        costo_salida == ObtenerCostoConexion(inst, id_servicio, servicio_siguiente)
    IN IF \/ costo_entrada >= INFACTIBLE
          \/ costo_salida >= INFACTIBLE
          \/ costo_original >= INFACTIBLE
       THEN None ELSE Some(costo_entrada + costo_salida)

\* _calcular_costo_insercion_medio (posicion is 0-based)
CalcularCostoInsercionMedio(inst, ruta, id_servicio, posicion) ==
    LET servicio_anterior == ruta.servicios[posicion]
        servicio_siguiente == ruta.servicios[posicion + 1]
        costo_original == ObtenerCostoConexion(inst, servicio_anterior, servicio_siguiente)
        costo_entrada == ObtenerCostoConexion(inst, servicio_anterior, id_servicio)
        costo_salida == ObtenerCostoConexion(inst, id_servicio, servicio_siguiente)
    IN IF \/ costo_entrada >= INFACTIBLE
          \/ costo_salida >= INFACTIBLE
          \/ costo_original >= INFACTIBLE
       THEN None ELSE Some(costo_entrada + costo_salida - costo_original)

\* _calcular_costo_insercion
CalcularCostoInsercion(inst, ruta, id_servicio, posicion) ==
    IF posicion < 0 \/ posicion > Len(ruta.servicios) THEN None
    ELSE IF posicion = Len(ruta.servicios)
    THEN CalcularCostoInsercionFinal(inst, ruta, id_servicio)
    ELSE IF posicion = 0
    THEN CalcularCostoInsercionInicio(inst, ruta, id_servicio)
    ELSE CalcularCostoInsercionMedio(inst, ruta, id_servicio, posicion)

\* _es_insercion_factible
EsInsercionFactible(inst, ruta, id_servicio, posicion) ==
    /\ posicion > 0 => EsConexionFactible(inst, ruta.servicios[posicion], id_servicio)
    /\ posicion < Len(ruta.servicios) =>
           EsConexionFactible(inst, id_servicio, ruta.servicios[posicion + 1])

\* _evaluar_insercion_en_ruta: None or <<(posicion, costo)>>
RECURSIVE EvaluarDesde(_, _, _, _, _)
EvaluarDesde(inst, ruta, id_servicio, posicion, mejor) ==
    IF posicion > Len(ruta.servicios) THEN mejor
    ELSE LET costo_incremental == CalcularCostoInsercion(inst, ruta, id_servicio, posicion)
             nuevo == IF /\ costo_incremental # None
                         /\ (mejor = None \/ costo_incremental[1] < mejor[1][2])
                         /\ EsInsercionFactible(inst, ruta, id_servicio, posicion)
                      THEN Some(<<posicion, costo_incremental[1]>>)
                      ELSE mejor
         IN EvaluarDesde(inst, ruta, id_servicio, posicion + 1, nuevo)

EvaluarInsercionEnRuta(inst, ruta, id_servicio) ==
    EvaluarDesde(inst, ruta, id_servicio, 0, None)

\* a search over the routes that keeps the last of the routes of least cost
RECURSIVE MejorAsignacionVSPUltima(_, _, _, _, _)
MejorAsignacionVSPUltima(inst, sol, id_servicio, i, mejor_opcion) ==
    IF i >= Len(sol.rutas) THEN mejor_opcion
    ELSE LET ruta == sol.rutas[i + 1]
             opcion_ruta == IF EsVaciaVSP(ruta) THEN None
                            ELSE EvaluarInsercionEnRuta(inst, ruta, id_servicio)
             nuevo == IF /\ opcion_ruta # None
                         /\ (mejor_opcion = None \/ opcion_ruta[1][2] <= mejor_opcion[1][3])
                      THEN Some(<<i, opcion_ruta[1][1], opcion_ruta[1][2]>>)
                      ELSE mejor_opcion
         IN MejorAsignacionVSPUltima(inst, sol, id_servicio, i + 1, nuevo)

\* _encontrar_mejor_asignacion (VSP): None or <<(id_ruta, posicion, costo)>>
RECURSIVE MejorAsignacionVSPDesde(_, _, _, _, _)
MejorAsignacionVSPDesde(inst, sol, id_servicio, i, mejor_opcion) ==
    IF i >= Len(sol.rutas) THEN mejor_opcion
    ELSE LET ruta == sol.rutas[i + 1]
             opcion_ruta == IF EsVaciaVSP(ruta) THEN None
                            ELSE EvaluarInsercionEnRuta(inst, ruta, id_servicio)
             nuevo == IF /\ opcion_ruta # None
                         /\ (mejor_opcion = None \/ opcion_ruta[1][2] < mejor_opcion[1][3])
                      THEN Some(<<i, opcion_ruta[1][1], opcion_ruta[1][2]>>)
                      ELSE mejor_opcion
         IN MejorAsignacionVSPDesde(inst, sol, id_servicio, i + 1, nuevo)

EncontrarMejorAsignacionVSP(inst, sol, id_servicio) ==
    MejorAsignacionVSPDesde(inst, sol, id_servicio, 0, None)

\* the assignment, had it not recorded the service as assigned
AsignarARutaExistenteSinRegistrar(inst, sol, id_servicio, id_ruta, posicion, costo_incremental) ==
    LET servicio == inst.servicios[id_servicio]
    IN [sol EXCEPT
          !.rutas[id_ruta + 1] =
              InsertarServicio(@, posicion, id_servicio, costo_incremental,
                               servicio.tiempo_inicio, servicio.tiempo_fin),
          !.costo_total = @ + costo_incremental]

\* _asignar_a_ruta_existente
AsignarARutaExistente(inst, sol, id_servicio, id_ruta, posicion, costo_incremental) ==
    LET servicio == inst.servicios[id_servicio]
    IN [sol EXCEPT
          !.rutas[id_ruta + 1] =
              InsertarServicio(@, posicion, id_servicio, costo_incremental,
                               servicio.tiempo_inicio, servicio.tiempo_fin),
          !.servicios_asignados = @ \cup {id_servicio},
          !.costo_total = @ + costo_incremental]

\* a _crear_nueva_ruta whose fleet test is > where the code has >=
CrearNuevaRutaFallaTardia(inst, sol, id_servicio) ==
    \/ Len(sol.rutas) > inst.deposito.numero_vehiculos
    \/ ObtenerCostoDesdeDeposito(inst, id_servicio) >= INFACTIBLE
    \/ ObtenerCostoHaciaDeposito(inst, id_servicio) >= INFACTIBLE

\* _crear_nueva_ruta raises RuntimeError
CrearNuevaRutaFalla(inst, sol, id_servicio) ==
    \/ Len(sol.rutas) >= inst.deposito.numero_vehiculos
    \/ ObtenerCostoDesdeDeposito(inst, id_servicio) >= INFACTIBLE
    \/ ObtenerCostoHaciaDeposito(inst, id_servicio) >= INFACTIBLE

\* _crear_nueva_ruta, when it does not raise
CrearNuevaRuta(inst, sol, id_servicio) ==
    LET id_vehiculo == Len(sol.rutas)
        costo_ida == ObtenerCostoDesdeDeposito(inst, id_servicio)
        costo_vuelta == ObtenerCostoHaciaDeposito(inst, id_servicio)
        costo_total_ruta == costo_ida + costo_vuelta
        servicio == inst.servicios[id_servicio]
        nueva_ruta == AgregarServicio(
            [id_vehiculo |-> id_vehiculo, servicios |-> << >>, costo_total |-> 0,
             tiempo_inicio_ruta |-> None, tiempo_fin_ruta |-> None],
            id_servicio, costo_total_ruta, servicio.tiempo_inicio, servicio.tiempo_fin)
    IN [sol EXCEPT
          !.rutas = Append(@, nueva_ruta),
          !.servicios_asignados = @ \cup {id_servicio},
          !.costo_total = @ + costo_total_ruta]

\* _procesar_servicio raises
ProcesarServicioFalla(inst, sol, id_servicio) ==
    /\ EncontrarMejorAsignacionVSP(inst, sol, id_servicio) = None
    /\ CrearNuevaRutaFalla(inst, sol, id_servicio)

\* _procesar_servicio, when it does not raise
ProcesarServicio(inst, sol, id_servicio) ==
    LET mejor_opcion == EncontrarMejorAsignacionVSP(inst, sol, id_servicio)
    IN IF mejor_opcion # None
       THEN AsignarARutaExistente(inst, sol, id_servicio, mejor_opcion[1][1],
                                  mejor_opcion[1][2], mejor_opcion[1][3])
       ELSE CrearNuevaRuta(inst, sol, id_servicio)

\* SolucionVSP(nombre_instancia=...)
SolucionVSPVacia ==
    [rutas |-> << >>, servicios_asignados |-> {}, costo_total |-> 0,
     numero_vehiculos_usados |-> 0, es_factible |-> FALSE,
     numero_servicios_total |-> 0]

----------------------------------------------------------------------------
(* The VSP run: the instance is built, then resolver *)

\* the windows of the three-service timetables
VentanasEscenario == {<<0, 10>>, <<15, 25>>, <<30, 40>>}

\* the cost file of the three-service instances: 5 between services, 10 on
\* every cell of the depot's row and column
MatrizEscenario ==
    [i \in 0..3 |-> [j \in 0..3 |-> IF i = 3 \/ j = 3 THEN 10 ELSE 5]]

\* the windows of the three-service timetables whose services differ in
\* duration, so that the strategies order them differently
VentanasEstrategias == {<<0, 10>>, <<15, 28>>, <<30, 40>>}

\* the cost file of MatrizEscenario with the connection from service 0 to
\* service 2 forbidden
MatrizBloqueada ==
    [MatrizEscenario EXCEPT ![0][2] = INFACTIBLE]

\* the cost file of MatrizEscenario with the connection from service 1 to
\* service 2 forbidden and a dearer connection from service 0 to service 2
MatrizDesigual ==
    [MatrizEscenario EXCEPT ![1][2] = INFACTIBLE, ![0][2] = 6]

\* how the VSPData is obtained: VSPDataLoader.cargar_instancia, or the
\* caller constructs VSPData from its own matrix
Vias == {"cargador", "directo"}

\* the costs of the legs between a service and a depot in the cost files of
\* MDVSP format that are read as VSP instances
CostosDeDeposito == {1, 2, INFACTIBLE, INFACTIBLE + 1}

\* the cost files of MDVSP format (trips first, then depots) read as VSP
\* instances: CostoBase in every cell but the legs between trip 0 and each
\* depot
MatricesPlegables(numero_viajes, numero_depositos) ==
    {[i \in 0..(numero_viajes + numero_depositos - 1) |->
         [j \in 0..(numero_viajes + numero_depositos - 1) |->
             IF i >= numero_viajes /\ j = 0 THEN ida[i - numero_viajes + 1]
             ELSE IF i = 0 /\ j >= numero_viajes THEN vuelta[j - numero_viajes + 1]
             ELSE CostoBase]]
     : ida \in [1..numero_depositos -> CostosDeDeposito],
       vuelta \in [1..numero_depositos -> CostosDeDeposito]}

\* the timetables of those instances: two services apart, or one of them
\* running into the other
TiemposPlegables ==
    {t \in [IdsServicios -> {<<0, 1>>, <<2, 3>>, <<1, 3>>}] : t[0] # t[1]}

EntradasVSP ==
    [numero_servicios : {Cardinality(IdsServicios)},
     numero_vehiculos : 1..MaxVehiculos,
     tiempos : [IdsServicios -> Ventanas(MaxTiempoVSP)],
     matriz_base : MatricesBase(Cardinality(IdsServicios) + 1)
                   \cup MatricesMalDimensionadas(Cardinality(IdsServicios) + 1),
     via : Vias]
    \cup
    [numero_servicios : {3},
     numero_vehiculos : 1..MaxVehiculos,
     tiempos : {t \in [0..2 -> VentanasEscenario] :
                   \A i \in 0..2 : \A j \in 0..2 : i # j => t[i] # t[j]},
     matriz_base : {MatrizEscenario},
     via : Vias]
    \cup
    [numero_servicios : {3},
     numero_vehiculos : 1..MaxVehiculos,
     tiempos : {t \in [0..2 -> VentanasEstrategias] :
                   \A i \in 0..2 : \A j \in 0..2 : i # j => t[i] # t[j]},
     matriz_base : {MatrizBloqueada, MatrizDesigual},
     via : Vias]
    \cup
    UNION { [numero_servicios : {Cardinality(IdsServicios)},
             vehiculos : {flota},
             tiempos : TiemposPlegables,
             matriz_base : MatricesPlegables(Cardinality(IdsServicios), Len(flota)),
             via : {"archivos"}]
            : flota \in Flotas }

InitVSP ==
    /\ pc = "cargar_vsp"
    /\ entrada \in EntradasVSP
    /\ instancia = Ninguna
    /\ solucion = Ninguna
    /\ viajes_pendientes = {}
    /\ iteraciones = 0
    /\ estrategia = "tiempo_inicio"
    /\ servicios_ordenados = << >>
    /\ procesados = 0
    /\ punto_entrada = "resolver"
    /\ indice_estrategia = 0
    /\ mejor_solucion = None
    /\ corridas = << >>
    /\ solucion_previa = None

\* VSPDataLoader.cargar_instancia returns the instance
CargarInstanciaVSP ==
    /\ pc = "cargar_vsp"
    /\ entrada.via = "cargador"
    /\ ~CargaVSPFalla(entrada)
    /\ instancia' = InstanciaVSP(entrada)
    /\ pc' = "resolver_vsp"
    /\ UNCHANGED <<solucion_previa, entrada, solucion, vars_mdvsp, vars_vsp, vars_multi>>

\* VSPDataLoader.cargar_instancia_desde_archivos returns the instance, the
\* .cst file being in the MDVSP format
CargarInstanciaDesdeArchivos ==
    /\ pc = "cargar_vsp"
    /\ entrada.via = "archivos"
    /\ ~CargaVSPFalla(entrada)
    /\ instancia' = InstanciaVSPDesdeArchivos(entrada)
    /\ pc' = "resolver_vsp"
    /\ UNCHANGED <<solucion_previa, entrada, solucion, vars_mdvsp, vars_vsp, vars_multi>>

\* VSPData(...) built by the caller: __post_init__ returns
ConstruirInstanciaVSP ==
    /\ pc = "cargar_vsp"
    /\ entrada.via = "directo"
    /\ ~CargaVSPFalla(entrada)
    /\ instancia' = InstanciaVSPDirecta(entrada)
    /\ pc' = "resolver_vsp"
    /\ UNCHANGED <<solucion_previa, entrada, solucion, vars_mdvsp, vars_vsp, vars_multi>>

\* Servicio.__post_init__ or VSPData._validar_datos raises ValueError
CargarInstanciaVSPError ==
    /\ pc = "cargar_vsp"
    /\ CargaVSPFalla(entrada)
    /\ pc' = "error_carga_vsp"
    /\ UNCHANGED <<solucion_previa, entrada, instancia, solucion, vars_mdvsp, vars_vsp, vars_multi>>

\* the strategies of resolver_con_multiples_estrategias, in its order
EstrategiasMultiples == <<"tiempo_inicio", "tiempo_fin", "duracion", "mixta">>

\* a comparison that looks at the vehicle count alone
CriterioMenorSoloVehiculos(a, b) == a[1] < b[1]

\* the tuple comparison criterio_evaluacion < criterio_mejor
CriterioMenor(a, b) == a[1] < b[1] \/ (a[1] = b[1] /\ a[2] < b[2])

\* the body of the try block after resolver has returned: the solution
\* replaces the best one when its (vehicles, cost) pair is smaller
ActualizarMejorSolucion(mejor, sol) ==
    IF mejor = None
    THEN Some(sol)
    ELSE IF CriterioMenor(<<sol.numero_vehiculos_usados, sol.costo_total>>,
                          <<mejor[1].numero_vehiculos_usados, mejor[1].costo_total>>)
    THEN Some(sol)
    ELSE mejor

\* the loop of resolver from the k-th service of the order on: the solution
\* when every service has been processed, None when _procesar_servicio raises
RECURSIVE ProcesarDesde(_, _, _, _)
ProcesarDesde(inst, sol, orden, k) ==
    IF k > Len(orden)
    THEN Some(sol)
    ELSE IF ProcesarServicioFalla(inst, sol, orden[k])
    THEN None
    ELSE ProcesarDesde(inst, ProcesarServicio(inst, sol, orden[k]), orden, k + 1)

\* resolver(instancia, estrategia) called on its own: the solution it
\* returns, None when it raises
ResolverVSP(inst, est) ==
    LET final == ProcesarDesde(inst, SolucionVSPVacia, OrdenarServicios(inst, est), 1)
    IN IF final = None
       THEN None
       ELSE Some(CalcularMetricasVSP(final[1], inst.numero_servicios))

\* the caller invokes resolver(instancia, estrategia): resolver, up to the loop
ResolverVSPInicio ==
    /\ pc = "resolver_vsp"
    /\ punto_entrada' = "resolver"
    /\ estrategia' \in Estrategias
    /\ ~OrdenarServiciosFalla(estrategia')
    /\ solucion' = SolucionVSPVacia
    /\ servicios_ordenados' = OrdenarServicios(instancia, estrategia')
    /\ procesados' = 0
    /\ pc' = "ciclo_vsp"
    /\ UNCHANGED <<solucion_previa, entrada, instancia, vars_mdvsp, indice_estrategia, mejor_solucion,
                   corridas>>

\* the caller invokes resolver with a strategy name _ordenar_servicios does
\* not know: the empty SolucionVSP is created, then the sort raises ValueError
ResolverVSPEstrategiaDesconocida ==
    /\ pc = "resolver_vsp"
    /\ punto_entrada' = "resolver"
    /\ estrategia' \in EstrategiasDesconocidas
    /\ OrdenarServiciosFalla(estrategia')
    /\ solucion' = SolucionVSPVacia
    /\ pc' = "error_estrategia"
    /\ UNCHANGED <<solucion_previa, entrada, instancia, vars_mdvsp, servicios_ordenados,
                   procesados, indice_estrategia, mejor_solucion, corridas>>

\* a second call of resolver that goes on with the solution of the first
ResolverVSPOtraVezSinReinicio ==
    /\ pc = "retorno_vsp"
    /\ solucion_previa = None
    /\ solucion_previa' = Some(solucion)
    /\ servicios_ordenados' = OrdenarServicios(instancia, estrategia)
    /\ procesados' = 0
    /\ pc' = "ciclo_vsp"
    /\ UNCHANGED <<entrada, instancia, solucion, estrategia, vars_mdvsp, vars_multi>>

\* the caller invokes resolver(instancia, estrategia) again on the same
\* scheduler object, with the same instance and strategy: resolver, up to
\* the loop
ResolverVSPOtraVez ==
    /\ pc = "retorno_vsp"
    /\ solucion_previa = None
    /\ solucion_previa' = Some(solucion)
    /\ solucion' = SolucionVSPVacia
    /\ servicios_ordenados' = OrdenarServicios(instancia, estrategia)
    /\ procesados' = 0
    /\ pc' = "ciclo_vsp"
    /\ UNCHANGED <<entrada, instancia, estrategia, vars_mdvsp, vars_multi>>

\* the caller invokes resolver_con_multiples_estrategias(instancia): up to
\* its loop over the strategies
ResolverMultiplesInicio ==
    /\ pc = "resolver_vsp"
    /\ punto_entrada' = "resolver_con_multiples_estrategias"
    /\ indice_estrategia' = 0
    /\ mejor_solucion' = None
    /\ corridas' = << >>
    /\ pc' = "multiples_vsp"
    /\ UNCHANGED <<solucion_previa, entrada, instancia, solucion, vars_mdvsp, vars_vsp>>

\* the loop over the strategies calls resolver(instancia, estrategia):
\* resolver, up to its loop
MultiplesResolverInicio ==
    /\ pc = "multiples_vsp"
    /\ indice_estrategia < Len(EstrategiasMultiples)
    /\ estrategia' = EstrategiasMultiples[indice_estrategia + 1]
    /\ solucion' = SolucionVSPVacia
    /\ servicios_ordenados' = OrdenarServicios(instancia, estrategia')
    /\ procesados' = 0
    /\ pc' = "ciclo_vsp"
    /\ UNCHANGED <<solucion_previa, entrada, instancia, vars_mdvsp, vars_multi>>

\* the pass, had _crear_nueva_ruta taken the vehicle of a new route out of the
\* depot's count
IteracionProcesaConsumeVehiculo ==
    /\ pc = "ciclo_vsp"
    /\ procesados < Len(servicios_ordenados)
    /\ LET id_servicio == servicios_ordenados[procesados + 1]
       IN /\ ~ProcesarServicioFalla(instancia, solucion, id_servicio)
          /\ solucion' = ProcesarServicio(instancia, solucion, id_servicio)
    /\ procesados' = procesados + 1
    /\ instancia' = [instancia EXCEPT !.deposito.numero_vehiculos =
                         @ - (Len(solucion'.rutas) - Len(solucion.rutas))]
    /\ UNCHANGED <<solucion_previa, pc, entrada, estrategia, servicios_ordenados, vars_mdvsp,
                   vars_multi>>

\* one pass of the loop: _procesar_servicio returns
IteracionProcesa ==
    /\ pc = "ciclo_vsp"
    /\ procesados < Len(servicios_ordenados)
    /\ LET id_servicio == servicios_ordenados[procesados + 1]
       IN /\ ~ProcesarServicioFalla(instancia, solucion, id_servicio)
          /\ solucion' = ProcesarServicio(instancia, solucion, id_servicio)
    /\ procesados' = procesados + 1
    /\ UNCHANGED <<solucion_previa, pc, entrada, instancia, estrategia, servicios_ordenados, vars_mdvsp,
                   vars_multi>>

\* one pass of the loop: _crear_nueva_ruta raises RuntimeError, which
\* resolver lets through to its caller
IteracionProcesaError ==
    /\ pc = "ciclo_vsp"
    /\ punto_entrada = "resolver"
    /\ procesados < Len(servicios_ordenados)
    /\ ProcesarServicioFalla(instancia, solucion, servicios_ordenados[procesados + 1])
    /\ pc' = "error_vsp"
    /\ UNCHANGED <<solucion_previa, entrada, instancia, solucion, vars_mdvsp, vars_vsp, vars_multi>>

\* the same, resolver having been called by resolver_con_multiples_estrategias:
\* its "except Exception" catches the error and the loop goes on with the
\* next strategy
IteracionProcesaErrorMultiples ==
    /\ pc = "ciclo_vsp"
    /\ punto_entrada = "resolver_con_multiples_estrategias"
    /\ procesados < Len(servicios_ordenados)
    /\ ProcesarServicioFalla(instancia, solucion, servicios_ordenados[procesados + 1])
    /\ corridas' = Append(corridas, None)
    /\ indice_estrategia' = indice_estrategia + 1
    /\ pc' = "multiples_vsp"
    /\ UNCHANGED <<solucion_previa, entrada, instancia, solucion, vars_mdvsp, vars_vsp, punto_entrada,
                   mejor_solucion>>

\* resolver (VSP), after the loop: calcular_metricas and return to the caller
FinalizarVSP ==
    /\ pc = "ciclo_vsp"
    /\ punto_entrada = "resolver"
    /\ procesados = Len(servicios_ordenados)
    /\ solucion' = CalcularMetricasVSP(solucion, instancia.numero_servicios)
    /\ pc' = "retorno_vsp"
    /\ UNCHANGED <<solucion_previa, entrada, instancia, vars_mdvsp, vars_vsp, vars_multi>>

\* the same, returning to resolver_con_multiples_estrategias, which compares
\* the solution with the best one and goes on with the next strategy
FinalizarVSPMultiples ==
    /\ pc = "ciclo_vsp"
    /\ punto_entrada = "resolver_con_multiples_estrategias"
    /\ procesados = Len(servicios_ordenados)
    /\ solucion' = CalcularMetricasVSP(solucion, instancia.numero_servicios)
    /\ mejor_solucion' = ActualizarMejorSolucion(mejor_solucion, solucion')
    /\ corridas' = Append(corridas, Some(solucion'))
    /\ indice_estrategia' = indice_estrategia + 1
    /\ pc' = "multiples_vsp"
    /\ UNCHANGED <<solucion_previa, entrada, instancia, vars_mdvsp, vars_vsp, punto_entrada>>

\* resolver_con_multiples_estrategias returns mejor_solucion
RetornoMultiples ==
    /\ pc = "multiples_vsp"
    /\ indice_estrategia = Len(EstrategiasMultiples)
    /\ pc' = "retorno_multiples"
    /\ UNCHANGED <<solucion_previa, entrada, instancia, solucion, vars_mdvsp, vars_vsp, vars_multi>>

NextVSP ==
    \/ CargarInstanciaVSP
    \/ CargarInstanciaDesdeArchivos
    \/ ConstruirInstanciaVSP
    \/ CargarInstanciaVSPError
    \/ ResolverVSPInicio
    \/ ResolverVSPEstrategiaDesconocida
    \/ ResolverVSPOtraVez
    \/ ResolverMultiplesInicio
    \/ MultiplesResolverInicio
    \/ IteracionProcesa
    \/ IteracionProcesaError
    \/ IteracionProcesaErrorMultiples
    \/ FinalizarVSP
    \/ FinalizarVSPMultiples
    \/ RetornoMultiples

SpecVSP == InitVSP /\ [][NextVSP]_vars

----------------------------------------------------------------------------
(* Both programs *)

Init == InitMDVSP \/ InitVSP

Next == NextMDVSP \/ NextVSP

Spec == Init /\ [][Next]_vars

----------------------------------------------------------------------------
(* Properties of the MDVSP run *)

\* an MDVSPData exists: cargar_instancia has returned
InstanciaCargadaMDVSP ==
    pc \in {"resolver_mdvsp", "ciclo", "finalizar", "retorno_mdvsp"}

\* a solution exists: the solve loop is running or has ended
EnSolucionMDVSP == pc \in {"ciclo", "finalizar", "retorno_mdvsp"}

\* the adjacent pairs (a, b) of a task sequence
Adyacentes(seq) == {<<seq[k], seq[k + 1]>> : k \in 1..(Len(seq) - 1)}

\* calcular_costo_ruta_manual: depot -> first -> ... -> last -> depot
CalcularCostoRutaManual(inst, ruta) ==
    IF ruta.viajes = << >> THEN 0
    ELSE LET indice_deposito == inst.numero_viajes + ruta.id_deposito
             n == Len(ruta.viajes)
         IN inst.matriz_viajes[indice_deposito][ruta.viajes[1]]
            + SumSeq([k \in 1..(n - 1) |->
                        inst.matriz_viajes[ruta.viajes[k]][ruta.viajes[k + 1]]])
            + inst.matriz_viajes[ruta.viajes[n]][indice_deposito]

\* C1: in the MDVSP solver, in every state after a committed insertion, every
\* adjacent pair (a, b) of every route satisfies
\* end_time(a) + cost(a, b) <= start_time(b), cost being the matrix entry.
C1_RutasRespetanTiempoDeViaje ==
    EnSolucionMDVSP =>
        \A k \in DOMAIN solucion.rutas :
            \A par \in Adyacentes(solucion.rutas[k].viajes) :
                instancia.viajes[par[1]].tiempo_fin
                + instancia.matriz_viajes[par[1]][par[2]]
                <= instancia.viajes[par[2]].tiempo_inicio

\* a task none of whose depot arcs is feasible, in either direction
SinArcoADeposito(inst, t) ==
    \A d \in 0..(inst.numero_depositos - 1) :
        /\ inst.matriz_viajes[inst.numero_viajes + d][t] = INFACTIBLE
        /\ inst.matriz_viajes[t][inst.numero_viajes + d] = INFACTIBLE

\* C4: when the MDVSP solver returns for an instance in which a task has no
\* feasible arc to or from any depot, es_factible is false and that task is
\* not in viajes_asignados.
C4_TareaSinDepositoQuedaFuera ==
    pc = "retorno_mdvsp" =>
        \A t \in 0..(instancia.numero_viajes - 1) :
            SinArcoADeposito(instancia, t) =>
                /\ ~solucion.es_factible
                /\ t \notin solucion.viajes_asignados

\* C6: when the MDVSP solver returns, the costo_total of every route is the
\* sum of the matrix arcs depot -> first -> ... -> last -> depot of its
\* sequence, and the costo_total of the solution is the sum of those sums.
C6_CostoIgualASumaDeArcos ==
    pc = "retorno_mdvsp" =>
        /\ \A k \in DOMAIN solucion.rutas :
              solucion.rutas[k].costo_total
              = CalcularCostoRutaManual(instancia, solucion.rutas[k])
        /\ solucion.costo_total
           = SumSeq([k \in DOMAIN solucion.rutas |->
                        CalcularCostoRutaManual(instancia, solucion.rutas[k])])

\* C7: in the matrix of a loaded MDVSP instance, for distinct tasks a, b as
\* the scheduler addresses them (indices 0..tasks-1, task k with the k-th
\* times), the cell (a, b) is below the sentinel exactly when the raw cost is
\* below the sentinel and end_time(a) + raw_cost(a, b) <= start_time(b), and
\* is the sentinel otherwise.
C7_CeldasEntreViajes ==
    InstanciaCargadaMDVSP =>
        \A a \in 0..(instancia.numero_viajes - 1) :
            \A b \in 0..(instancia.numero_viajes - 1) :
                a # b =>
                    LET costo_base == entrada.matriz_base[a][b]
                        conecta ==
                            /\ costo_base < INFACTIBLE
                            /\ instancia.viajes[a].tiempo_fin + costo_base
                               <= instancia.viajes[b].tiempo_inicio
                    IN /\ (instancia.matriz_viajes[a][b] < INFACTIBLE) <=> conecta
                       /\ ~conecta => instancia.matriz_viajes[a][b] = INFACTIBLE

\* C8: in the matrix of a loaded MDVSP instance, every cell whose row and
\* column are both depot nodes (indices tasks..tasks+depots-1) is the
\* sentinel, the diagonal included.
C8_CeldasEntreDepositos ==
    InstanciaCargadaMDVSP =>
        \A d1 \in 0..(instancia.numero_depositos - 1) :
            \A d2 \in 0..(instancia.numero_depositos - 1) :
                instancia.matriz_viajes[instancia.numero_viajes + d1]
                                       [instancia.numero_viajes + d2] = INFACTIBLE

\* C10: when the MDVSP solver returns, es_factible is true exactly when no
\* task is pending, the pending tasks being the tasks that are not in
\* viajes_asignados; and no step of the loop can raise: the pair it commits
\* is a pending task (set.remove finds it) and an existing route.
C10_FactibleSiiSinPendientes ==
    /\ pc = "retorno_mdvsp" =>
          /\ solucion.es_factible <=> (viajes_pendientes = {})
          /\ viajes_pendientes
             = (0..(instancia.numero_viajes - 1)) \ solucion.viajes_asignados
    /\ (pc = "ciclo" /\ viajes_pendientes # {}) =>
          LET mejor_asignacion ==
                  EncontrarMejorAsignacion(instancia, solucion, viajes_pendientes)
          IN mejor_asignacion # None =>
                 /\ mejor_asignacion[1][1] \in viajes_pendientes
                 /\ mejor_asignacion[1][2] \in 0..(Len(solucion.rutas) - 1)

\* a return with pending tasks: a solution with es_factible false
C10_Witness ==
    /\ pc = "retorno_mdvsp"
    /\ viajes_pendientes # {}
    /\ ~solucion.es_factible
    /\ solucion.viajes_asignados # {}

\* the (pending trip, route) pairs of the current state for which
\* _calcular_costo_asignacion yields a cost, empty routes included
ParesFactibles ==
    {par \in viajes_pendientes \X (0..(Len(solucion.rutas) - 1)) :
        CalcularCostoAsignacion(instancia, solucion.rutas[par[2] + 1],
                                instancia.viajes[par[1]]) # None}

\* the insertion cost of a pair of ParesFactibles
CostoPar(par) ==
    CalcularCostoAsignacion(instancia, solucion.rutas[par[2] + 1],
                            instancia.viajes[par[1]])[1]

\* a pair is met before another one in the enumeration: pending trips in the
\* outer loop, routes by ascending index in the inner loop
ParAntes(par, otro) ==
    par[1] < otro[1] \/ (par[1] = otro[1] /\ par[2] <= otro[2])

\* C11: in every iteration of the MDVSP loop that starts with at least one
\* feasible (pending trip, route) pair, the step commits one pair: its trip
\* leaves the pending set and enters its route, which is the only route that
\* changes and whose cost grows by the pair's insertion cost; that cost is at
\* most the cost of every feasible pair of the state, empty routes included,
\* and every pair of the same cost is met later in the enumeration.
C11_ParComprometidoEsElMasBarato ==
    [][(pc = "ciclo" /\ viajes_pendientes # {} /\ ParesFactibles # {}) =>
          \E par \in ParesFactibles :
              /\ viajes_pendientes' = viajes_pendientes \ {par[1]}
              /\ \A k \in DOMAIN solucion.rutas :
                     (solucion'.rutas[k] # solucion.rutas[k]) <=> (k = par[2] + 1)
              /\ \E p \in DOMAIN solucion'.rutas[par[2] + 1].viajes :
                     solucion'.rutas[par[2] + 1].viajes[p] = par[1]
              /\ solucion'.rutas[par[2] + 1].costo_total
                 = solucion.rutas[par[2] + 1].costo_total + CostoPar(par)
              /\ \A otro \in ParesFactibles :
                     /\ CostoPar(par) <= CostoPar(otro)
                     /\ CostoPar(par) = CostoPar(otro) => ParAntes(par, otro)
      ]_vars

\* the loop has committed a trip, and the state holds two feasible pairs of
\* least cost, a dearer pair, and a feasible pair on an empty route
C11_Witness ==
    /\ pc = "ciclo"
    /\ iteraciones >= 1
    /\ \E par \in ParesFactibles : \E otro \in ParesFactibles :
          /\ par # otro
          /\ CostoPar(par) = CostoPar(otro)
          /\ \A x \in ParesFactibles : CostoPar(par) <= CostoPar(x)
    /\ \E x \in ParesFactibles : \E y \in ParesFactibles : CostoPar(x) < CostoPar(y)
    /\ \E y \in ParesFactibles : EsVacia(solucion.rutas[y[2] + 1])

\* trip t fits at position p (0-based) of route r: it does not start before
\* the trip in front of it ends, it ends before the trip behind it starts,
\* and the two arcs that would join it to its neighbours (a trip, or the
\* depot of the route at either end) are below the sentinel
CabeEnPosicion(t, r, p) ==
    LET ruta == solucion.rutas[r + 1]
        n == Len(ruta.viajes)
        indice_deposito == instancia.numero_viajes + ruta.id_deposito
        anterior == IF p = 0 THEN indice_deposito ELSE ruta.viajes[p]
        siguiente == IF p = n THEN indice_deposito ELSE ruta.viajes[p + 1]
    IN /\ ObtenerCosto(instancia, anterior, t) < INFACTIBLE
       /\ ObtenerCosto(instancia, t, siguiente) < INFACTIBLE
       /\ p > 0 => instancia.viajes[anterior].tiempo_fin
                    <= instancia.viajes[t].tiempo_inicio
       /\ p < n => instancia.viajes[t].tiempo_fin
                    <= instancia.viajes[siguiente].tiempo_inicio

\* some pending trip fits somewhere in some route, empty or not
HayInsercionFactible ==
    \E t \in viajes_pendientes : \E r \in 0..(Len(solucion.rutas) - 1) :
        \E p \in 0..Len(solucion.rutas[r + 1].viajes) : CabeEnPosicion(t, r, p)

\* C12: when the MDVSP loop has stopped with pending trips, no pending trip
\* has a feasible insertion into any route, empty or not (no pair has an
\* insertion cost, and no pending trip fits at any position of any route);
\* and every iteration that starts with a feasible pair commits a trip: the
\* pending set loses exactly one trip and the loop goes on.
C12_ParaSoloSinParFactible ==
    /\ []((pc \in {"finalizar", "retorno_mdvsp"} /\ viajes_pendientes # {}) =>
             (ParesFactibles = {} /\ ~HayInsercionFactible))
    /\ [][(pc = "ciclo" /\ (ParesFactibles # {} \/ HayInsercionFactible)) =>
             /\ pc' = "ciclo"
             /\ \E t \in viajes_pendientes :
                    /\ viajes_pendientes' = viajes_pendientes \ {t}
                    /\ solucion'.viajes_asignados = solucion.viajes_asignados \cup {t}
         ]_vars

\* the loop has stopped with pending trips, a route in use and an empty route
C12_Witness ==
    /\ pc = "finalizar"
    /\ viajes_pendientes # {}
    /\ \E k \in DOMAIN solucion.rutas : ~EsVacia(solucion.rutas[k])
    /\ \E k \in DOMAIN solucion.rutas : EsVacia(solucion.rutas[k])

\* C13: the MDVSP solve loop terminates for every instance: every step of
\* the loop either leaves the loop or removes exactly one trip from the
\* pending set; the number of commits is the number of trips that left the
\* pending set, at most numero_viajes; the number of iterations is the number
\* of commits, plus one if the loop stopped on a break, at most
\* numero_viajes + 1; and once the instance is loaded the solver reaches its
\* return.
C13_CicloTermina ==
    /\ [](EnSolucionMDVSP =>
             LET asignaciones == instancia.numero_viajes - Cardinality(viajes_pendientes)
             IN /\ asignaciones = Cardinality(solucion.viajes_asignados)
                /\ asignaciones <= instancia.numero_viajes
                /\ iteraciones \in {asignaciones, asignaciones + 1}
                /\ iteraciones = asignaciones + 1 =>
                       (pc \in {"finalizar", "retorno_mdvsp"} /\ viajes_pendientes # {})
                /\ iteraciones <= instancia.numero_viajes + 1)
    /\ [][pc = "ciclo" =>
             \/ pc' = "finalizar"
             \/ /\ pc' = "ciclo"
                /\ viajes_pendientes' \subseteq viajes_pendientes
                /\ Cardinality(viajes_pendientes') = Cardinality(viajes_pendientes) - 1
         ]_vars
    /\ (pc = "resolver_mdvsp") ~> (pc = "retorno_mdvsp")

\* the solver has returned after two commits and an iteration that found no
\* pair
C13_Witness ==
    /\ pc = "retorno_mdvsp"
    /\ Cardinality(solucion.viajes_asignados) = 2
    /\ iteraciones = 3

\* C23: the insertion-cost query of the MDVSP scheduler returns a cost for a
\* (trip, route) pair only if some candidate position has both arcs it would
\* add below the sentinel and passes the temporal check (for an empty route:
\* both depot legs below the sentinel); when every candidate has a new arc
\* at the sentinel it returns None.
C23_CostoSoloSiCabe ==
    pc = "ciclo" =>
        \A t \in viajes_pendientes : \A r \in 0..(Len(solucion.rutas) - 1) :
            CalcularCostoAsignacion(instancia, solucion.rutas[r + 1],
                                    instancia.viajes[t]) # None
            => \E p \in 0..Len(solucion.rutas[r + 1].viajes) : CabeEnPosicion(t, r, p)

\* C28: in every state of the MDVSP solve (so after every committed
\* insertion), each trip of each route ends no later than the trip that
\* follows it in the route starts.
C28_RutasEnOrdenTemporal ==
    EnSolucionMDVSP =>
        \A r \in DOMAIN solucion.rutas :
            \A par \in Adyacentes(solucion.rutas[r].viajes) :
                instancia.viajes[par[1]].tiempo_fin
                    <= instancia.viajes[par[2]].tiempo_inicio

\* a route holds three trips, of which the first could not follow the second
\* and the second could not follow the third
C28_Witness ==
    /\ pc = "ciclo"
    /\ \E r \in DOMAIN solucion.rutas :
           LET viajes == solucion.rutas[r].viajes
           IN /\ Len(viajes) = 3
              /\ instancia.viajes[viajes[2]].tiempo_fin
                     > instancia.viajes[viajes[1]].tiempo_inicio
              /\ instancia.viajes[viajes[3]].tiempo_fin
                     > instancia.viajes[viajes[2]].tiempo_inicio

----------------------------------------------------------------------------
(* Properties of the VSP run *)

\* a VSPData exists
InstanciaCargadaVSP ==
    pc \in {"resolver_vsp", "ciclo_vsp", "retorno_vsp", "error_vsp",
            "error_estrategia", "multiples_vsp", "retorno_multiples"}

\* a SolucionVSP exists: the loop is running, has ended, or has raised
EnSolucionVSP == pc \in {"ciclo_vsp", "retorno_vsp", "error_vsp"}

\* the files of the three-service scenario: windows [0,10], [15,25], [30,40],
\* cost 5 between services, 10 from and to the depot, 2 vehicles
EsEscenarioTresServicios ==
    /\ pc \in {"cargar_vsp", "error_carga_vsp"} \cup {"resolver_vsp", "ciclo_vsp", "retorno_vsp", "error_vsp"}
    /\ entrada.via = "cargador"
    /\ entrada.numero_servicios = 3
    /\ entrada.numero_vehiculos = 2
    /\ entrada.tiempos = [i \in 0..2 |-> IF i = 0 THEN <<0, 10>>
                                         ELSE IF i = 1 THEN <<15, 25>>
                                         ELSE <<30, 40>>]
    /\ entrada.matriz_base = MatrizEscenario

\* C2: the three-service scenario, loaded by the VSP loader and solved with
\* tiempo_inicio, ends in a return (no error) with a single route 0, 1, 2
\* and total cost 30.
C2_EscenarioEnUnaRuta ==
    (EsEscenarioTresServicios /\ estrategia = "tiempo_inicio") =>
        /\ pc \notin {"error_carga_vsp", "error_vsp"}
        /\ pc = "retorno_vsp" =>
              /\ Len(solucion.rutas) = 1
              /\ solucion.rutas[1].servicios = <<0, 1, 2>>
              /\ solucion.costo_total = 30

\* C3: in the matrix of a VSPData built by the VSP loader, for distinct
\* non-overlapping services i, j whose raw costs (i, j) and (j, i) are
\* neither 0 nor at or above the sentinel, the cell (i, j) is the raw cost
\* if end_time(i) + raw_cost(i, j) <= start_time(j), and the sentinel
\* otherwise.
C3_CeldasEntreServicios ==
    (InstanciaCargadaVSP /\ entrada.via = "cargador") =>
        \A i \in 0..(instancia.numero_servicios - 1) :
            \A j \in 0..(instancia.numero_servicios - 1) :
                LET costo_ij == entrada.matriz_base[i][j]
                    costo_ji == entrada.matriz_base[j][i]
                IN (/\ i # j
                    /\ ~SeTraslapaCon(instancia.servicios[i], instancia.servicios[j])
                    /\ costo_ij # 0 /\ costo_ij < INFACTIBLE
                    /\ costo_ji # 0 /\ costo_ji < INFACTIBLE)
                   => instancia.matriz_costos[i][j]
                      = IF instancia.servicios[i].tiempo_fin + costo_ij
                           <= instancia.servicios[j].tiempo_inicio
                        THEN costo_ij
                        ELSE INFACTIBLE

\* C14: in every state of the VSP scheduler the number of routes is at most
\* the depot's vehicle count (also in every solution a run has produced);
\* and when the service to process has no feasible insertion into any
\* existing route and the route count equals the vehicle count, the step
\* creates no route and assigns nothing: the run ends with the error, which
\* reaches the caller of resolver.
C14_RutasNoExcedenFlota ==
    /\ [](EnSolucionVSP =>
             Len(solucion.rutas) <= instancia.deposito.numero_vehiculos)
    /\ [](InstanciaCargadaVSP =>
             \A k \in DOMAIN corridas :
                 corridas[k] # None =>
                     Len(corridas[k][1].rutas) <= instancia.deposito.numero_vehiculos)
    /\ [][(/\ pc = "ciclo_vsp"
           /\ procesados < Len(servicios_ordenados)
           /\ EncontrarMejorAsignacionVSP(instancia, solucion,
                                          servicios_ordenados[procesados + 1]) = None
           /\ Len(solucion.rutas) = instancia.deposito.numero_vehiculos) =>
              /\ solucion' = solucion
              /\ procesados' = procesados
              /\ \/ pc' = "error_vsp"
                 \/ pc' = "multiples_vsp" /\ corridas' = Append(corridas, None)
         ]_vars

\* resolver has raised on the second of two services, the depot's single
\* vehicle serving the first one
C14_Witness ==
    /\ pc = "error_vsp"
    /\ instancia.numero_servicios = 2
    /\ instancia.deposito.numero_vehiculos = 1
    /\ Len(solucion.rutas) = 1
    /\ procesados = 1

\* C15: when a run of the VSP scheduler fails (fleet exhaustion, or an
\* unreachable depot leg when a route is opened), the error reaches the
\* caller of the entry point at once: under resolver the remaining services
\* are not processed and nothing is returned; under
\* resolver_con_multiples_estrategias no strategy is run after the failed
\* one and the entry point returns nothing.
C15_ErrorSePropaga ==
    /\ pc = "error_vsp" =>
           /\ punto_entrada = "resolver"
           /\ procesados < Len(servicios_ordenados)
    /\ (\E k \in DOMAIN corridas : corridas[k] = None) =>
           pc \notin {"multiples_vsp", "ciclo_vsp", "retorno_multiples"}

\* the (vehicles used, total cost) pair of a solution
ParCriterio(sol) == <<sol.numero_vehiculos_usados, sol.costo_total>>

\* a <= b in the lexicographic order of pairs
LexMenorIgual(a, b) == a[1] < b[1] \/ (a[1] = b[1] /\ a[2] <= b[2])

\* C16: when resolver_con_multiples_estrategias returns, it has run the four
\* strategies tiempo_inicio, tiempo_fin, duracion, mixta on the same
\* instance; the result of each run is what resolver gives for that strategy
\* when it is called on its own (an earlier run has not changed it); and the
\* returned solution is one of the solutions produced, its pair (vehicles
\* used, total cost) lexicographically less than or equal to the pair of
\* every solution produced.
C16_MultiplesDevuelveLaMejor ==
    pc = "retorno_multiples" =>
        /\ Len(corridas) = 4
        /\ \A k \in DOMAIN corridas :
               corridas[k] = ResolverVSP(instancia, EstrategiasMultiples[k])
        /\ \A k \in DOMAIN corridas :
               corridas[k] # None =>
                   /\ mejor_solucion # None
                   /\ LexMenorIgual(ParCriterio(mejor_solucion[1]),
                                    ParCriterio(corridas[k][1]))
        /\ mejor_solucion # None =>
               \E k \in DOMAIN corridas : corridas[k] = mejor_solucion

\* the entry point has returned after four runs that all produced a
\* solution, two of them with the same number of vehicles, the dearer one
\* first
C16_Witness ==
    /\ pc = "retorno_multiples"
    /\ \A k \in DOMAIN corridas : corridas[k] # None
    /\ \E j, k \in DOMAIN corridas :
           /\ j < k
           /\ ParCriterio(corridas[j][1])[1] = ParCriterio(corridas[k][1])[1]
           /\ ParCriterio(corridas[j][1])[2] > ParCriterio(corridas[k][1])[2]

\* depot -> first + the matrix cells between consecutive services + last ->
\* depot, for a non-empty sequence of services
CostoDeArcosVSP(inst, secuencia) ==
    inst.matriz_costos[inst.numero_servicios][secuencia[1]]
    + SumSeq([i \in 1..(Len(secuencia) - 1) |->
                 inst.matriz_costos[secuencia[i]][secuencia[i + 1]]])
    + inst.matriz_costos[secuencia[Len(secuencia)]][inst.numero_servicios]

\* the costs of a VSP solution agree with its routes
CostosCuadranVSP(inst, sol) ==
    /\ \A r \in DOMAIN sol.rutas :
           /\ sol.rutas[r].servicios # << >>
           /\ sol.rutas[r].costo_total = CostoDeArcosVSP(inst, sol.rutas[r].servicios)
           /\ CalcularCostoSecuencia(inst, sol.rutas[r].servicios)
                  = Some(sol.rutas[r].costo_total)
    /\ sol.costo_total = SumSeq([r \in DOMAIN sol.rutas |-> sol.rutas[r].costo_total])

\* C18: in every solution of the VSP scheduler, while it is built, before the
\* final calcular_metricas and after it (as returned by resolver, and as
\* kept and returned by resolver_con_multiples_estrategias), each route's
\* costo_total equals depot -> first + the arcs between consecutive services
\* + last -> depot, which is also what calcular_costo_secuencia gives for
\* the sequence, and the solution's costo_total is the sum of its routes'.
C18_CostoIgualASumaDeArcosVSP ==
    /\ EnSolucionVSP => CostosCuadranVSP(instancia, solucion)
    /\ InstanciaCargadaVSP =>
           /\ \A k \in DOMAIN corridas :
                  corridas[k] # None => CostosCuadranVSP(instancia, corridas[k][1])
           /\ mejor_solucion # None => CostosCuadranVSP(instancia, mejor_solucion[1])

\* resolver has returned a solution with a route of three services, the
\* last one placed between the other two
C18_Witness ==
    /\ pc = "retorno_vsp"
    /\ solucion.es_factible
    /\ \E r \in DOMAIN solucion.rutas :
           /\ Len(solucion.rutas[r].servicios) = 3
           /\ solucion.rutas[r].servicios[2] = servicios_ordenados[3]

\* cargar_instancia (VSP) has got as far as _construir_matriz_vsp: the cost
\* file has the dimension of its first line and every Servicio was accepted
ConstructorVSPEjecutado ==
    /\ pc \in {"error_carga_vsp"} \cup
              {"resolver_vsp", "ciclo_vsp", "retorno_vsp", "error_vsp",
               "multiples_vsp", "retorno_multiples"}
    /\ entrada.via = "cargador"
    /\ ~LeerMatrizCostosFalla(entrada.matriz_base, entrada.numero_servicios + 1)
    /\ \A i \in DOMAIN entrada.tiempos :
           ServicioValido(CargarArchivoTimVSP(entrada.tiempos)[i])

\* what _construir_matriz_vsp returned for the files of the run
MatrizConstruidaVSP ==
    ConstruirMatrizVSP(entrada.matriz_base, CargarArchivoTimVSP(entrada.tiempos),
                       entrada.numero_servicios)

\* C19: in the matrix _construir_matriz_vsp returns, for all nodes i, j: if
\* the raw cell (i, j) is 0 or at least the sentinel, or i and j are services
\* whose windows overlap (not (end_i <= start_j or end_j <= start_i)), then
\* the cells (i, j) and (j, i) are both the sentinel, whatever the raw cost
\* of the other direction.
C19_ReglasEnAmbasDirecciones ==
    ConstructorVSPEjecutado =>
        \A i, j \in 0..entrada.numero_servicios :
            (\/ entrada.matriz_base[i][j] = 0
             \/ entrada.matriz_base[i][j] >= INFACTIBLE
             \/ /\ i < entrada.numero_servicios
                /\ j < entrada.numero_servicios
                /\ ~(\/ entrada.tiempos[i][2] <= entrada.tiempos[j][1]
                     \/ entrada.tiempos[j][2] <= entrada.tiempos[i][1]))
            => /\ MatrizConstruidaVSP[i][j] = INFACTIBLE
               /\ MatrizConstruidaVSP[j][i] = INFACTIBLE

\* the builder has run on two services with overlapping windows and finite,
\* non-zero raw costs in both directions (VSPData then rejects the overlap),
\* the raw cell from a service to the depot being forbidden and the raw cell
\* back finite
C19_Witness ==
    /\ ConstructorVSPEjecutado
    /\ pc = "error_carga_vsp"
    /\ entrada.tiempos[0] = <<0, 2>>
    /\ entrada.tiempos[1] = <<1, 3>>
    /\ entrada.matriz_base[0][1] = CostoBase
    /\ entrada.matriz_base[1][0] = CostoBase
    /\ entrada.matriz_base[1][2] = 0
    /\ entrada.matriz_base[2][1] = CostoBase
    /\ MatrizConstruidaVSP[0][1] = INFACTIBLE
    /\ MatrizConstruidaVSP[1][0] = INFACTIBLE
    /\ MatrizConstruidaVSP[2][1] = INFACTIBLE

\* the service the next pass of the VSP loop processes
ServicioEnTurno == servicios_ordenados[procesados + 1]

\* the node before and the node after position p of route r (the depot at
\* the ends)
NodoAnterior(r, p) ==
    IF p = 0 THEN instancia.numero_servicios ELSE solucion.rutas[r + 1].servicios[p]
NodoSiguiente(r, p) ==
    IF p = Len(solucion.rutas[r + 1].servicios)
    THEN instancia.numero_servicios
    ELSE solucion.rutas[r + 1].servicios[p + 1]

\* the service in turn can be placed at position p of route r: the arcs it
\* adds are below the sentinel and, between services, feasible connections
CandidatosVSP ==
    {c \in (0..(Len(solucion.rutas) - 1)) \X (0..instancia.numero_servicios) :
        /\ c[2] <= Len(solucion.rutas[c[1] + 1].servicios)
        /\ IF c[2] = 0
           THEN instancia.matriz_costos[instancia.numero_servicios][ServicioEnTurno]
                    < INFACTIBLE
           ELSE EsConexionFactible(instancia, NodoAnterior(c[1], c[2]), ServicioEnTurno)
        /\ IF c[2] = Len(solucion.rutas[c[1] + 1].servicios)
           THEN instancia.matriz_costos[ServicioEnTurno][instancia.numero_servicios]
                    < INFACTIBLE
           ELSE EsConexionFactible(instancia, ServicioEnTurno, NodoSiguiente(c[1], c[2]))}

\* the cost the route gains when the service in turn is placed there
CostoCandidatoVSP(c) ==
    instancia.matriz_costos[NodoAnterior(c[1], c[2])][ServicioEnTurno]
    + instancia.matriz_costos[ServicioEnTurno][NodoSiguiente(c[1], c[2])]
    - instancia.matriz_costos[NodoAnterior(c[1], c[2])][NodoSiguiente(c[1], c[2])]

\* C24: in every pass of the VSP loop: when no route has a feasible position
\* for the service in turn, the pass opens a new route for it (or the solve
\* fails); otherwise no route is opened and the service is inserted into the
\* route and at the position of least incremental cost among all feasible
\* (route, position) candidates, ties going to the lowest route index and
\* then the lowest position.
C24_InsercionMasBarata ==
    [][(pc = "ciclo_vsp" /\ procesados < Len(servicios_ordenados)) =>
          IF CandidatosVSP = {}
          THEN IF solucion' = solucion
               THEN pc' # "ciclo_vsp"
               ELSE /\ Len(solucion'.rutas) = Len(solucion.rutas) + 1
                    /\ SubSeq(solucion'.rutas, 1, Len(solucion.rutas)) = solucion.rutas
                    /\ solucion'.rutas[Len(solucion'.rutas)].servicios = <<ServicioEnTurno>>
          ELSE \E c \in CandidatosVSP :
                  /\ pc' = "ciclo_vsp"
                  /\ Len(solucion'.rutas) = Len(solucion.rutas)
                  /\ \A r \in DOMAIN solucion.rutas :
                         r # c[1] + 1 => solucion'.rutas[r] = solucion.rutas[r]
                  /\ solucion'.rutas[c[1] + 1].servicios
                        = Insert(solucion.rutas[c[1] + 1].servicios, c[2], ServicioEnTurno)
                  /\ solucion'.rutas[c[1] + 1].costo_total
                        = solucion.rutas[c[1] + 1].costo_total + CostoCandidatoVSP(c)
                  /\ \A o \in CandidatosVSP :
                         /\ CostoCandidatoVSP(c) <= CostoCandidatoVSP(o)
                         /\ CostoCandidatoVSP(c) = CostoCandidatoVSP(o) =>
                                (c[1] < o[1] \/ (c[1] = o[1] /\ c[2] <= o[2]))
      ]_vars

\* the third service processed had a feasible position in each of two
\* routes at the same incremental cost, and has been inserted into the
\* first of them
C24_Witness ==
    /\ pc = "ciclo_vsp"
    /\ procesados = 3
    /\ servicios_ordenados = <<0, 2, 1>>
    /\ Len(solucion.rutas) = 2
    /\ solucion.rutas[1].servicios = <<0, 1>>
    /\ solucion.rutas[2].servicios = <<2>>
    /\ EsConexionFactible(instancia, 1, 2)
    /\ instancia.matriz_costos[0][1] + instancia.matriz_costos[1][3]
           - instancia.matriz_costos[0][3]
       = instancia.matriz_costos[3][1] + instancia.matriz_costos[1][2]
           - instancia.matriz_costos[3][2]

----------------------------------------------------------------------------
(* Properties of both programs *)

\* no task id occurs twice in the sequences
SinRepetidos(secuencias) ==
    \A k1 \in DOMAIN secuencias : \A k2 \in DOMAIN secuencias :
        \A p1 \in DOMAIN secuencias[k1] : \A p2 \in DOMAIN secuencias[k2] :
            secuencias[k1][p1] = secuencias[k2][p2] => (k1 = k2 /\ p1 = p2)

\* the number of task entries over all the sequences
TotalEntradas(secuencias) ==
    SumSeq([k \in DOMAIN secuencias |-> Len(secuencias[k])])

\* C5: in every state of either scheduler in which a solution exists, the
\* number of task entries over all routes is the size of the assigned set,
\* and no task id occurs twice over all routes.
C5_RutasCuadranConAsignados ==
    /\ EnSolucionMDVSP =>
          LET secuencias == [k \in DOMAIN solucion.rutas |-> solucion.rutas[k].viajes]
          IN /\ TotalEntradas(secuencias) = Cardinality(solucion.viajes_asignados)
             /\ SinRepetidos(secuencias)
    /\ EnSolucionVSP =>
          LET secuencias == [k \in DOMAIN solucion.rutas |-> solucion.rutas[k].servicios]
          IN /\ TotalEntradas(secuencias) = Cardinality(solucion.servicios_asignados)
             /\ SinRepetidos(secuencias)

\* the VSP loop between two commits, a service having been inserted into a
\* route that already held one
C5_Witness ==
    /\ pc = "ciclo_vsp"
    /\ procesados < Len(servicios_ordenados)
    /\ \E k \in DOMAIN solucion.rutas : Len(solucion.rutas[k].servicios) >= 2

\* C9: in the final matrix of the MDVSP loader and in the final matrix of
\* the VSP loader, the cell (i, i) of every node i, task or depot, is the
\* sentinel.
C9_DiagonalInfactible ==
    /\ InstanciaCargadaMDVSP =>
          \A i \in DOMAIN instancia.matriz_viajes :
              instancia.matriz_viajes[i][i] = INFACTIBLE
    /\ (InstanciaCargadaVSP /\ entrada.via = "cargador") =>
          \A i \in DOMAIN instancia.matriz_costos :
              instancia.matriz_costos[i][i] = INFACTIBLE

\* some cell of a cost matrix is negative
TieneCostoNegativo(matriz) ==
    \E i \in DOMAIN matriz : \E j \in DOMAIN matriz[i] : matriz[i][j] < 0

\* C20: no instance is produced (the build fails with an error) when the
\* dimension of the cost matrix disagrees with the trip and depot counts, or
\* when some input cost is negative; for MDVSP instances and VSP instances.
C20_EntradaInvalidaNoCarga ==
    /\ InstanciaCargadaMDVSP =>
           /\ Cardinality(DOMAIN entrada.matriz_base)
                  = entrada.numero_viajes + Len(entrada.vehiculos)
           /\ ~TieneCostoNegativo(entrada.matriz_base)
    /\ InstanciaCargadaVSP =>
           /\ Cardinality(DOMAIN entrada.matriz_base)
                  = IF entrada.via = "archivos"
                    THEN entrada.numero_servicios + Len(entrada.vehiculos)
                    ELSE entrada.numero_servicios + 1
           /\ ~TieneCostoNegativo(entrada.matriz_base)

----------------------------------------------------------------------------
(* Properties of the folding of an MDVSP cost file into a VSP matrix *)

\* cargar_instancia_desde_archivos has folded the matrix of the run's files
MatrizPlegada ==
    ConvertirMatrizMDVSPAVSP(entrada.matriz_base, Len(entrada.vehiculos),
                             entrada.numero_servicios)

\* the raw costs of the legs from every depot to a trip, and back
CostosDesdeDepositos(t) ==
    {entrada.matriz_base[entrada.numero_servicios + d][t] :
         d \in 0..(Len(entrada.vehiculos) - 1)}
CostosHaciaDepositos(t) ==
    {entrada.matriz_base[t][entrada.numero_servicios + d] :
         d \in 0..(Len(entrada.vehiculos) - 1)}

\* c is the least of the costs, the sentinel when they are all at or above it
EsMinimoOInfactible(c, costos) ==
    IF \A x \in costos : x >= INFACTIBLE
    THEN c = INFACTIBLE
    ELSE c \in costos /\ \A x \in costos : c <= x

\* C21: the folding of a multi-depot matrix returns a (trips + 1) x (trips +
\* 1) matrix whose trip-to-trip block is the input's, whose cell (depot, t)
\* is the least of the input's depot_d -> t costs and whose cell (t, depot)
\* the least of the t -> depot_d costs over all depots d (the sentinel when
\* all of them are at or above the sentinel); and the input matrix is the
\* same after the load as before.
C21_PlegadoTomaElMinimo ==
    /\ [](InstanciaCargadaVSP /\ entrada.via = "archivos" =>
             LET n == entrada.numero_servicios
             IN /\ DOMAIN MatrizPlegada = 0..n
                /\ \A i \in 0..n : DOMAIN MatrizPlegada[i] = 0..n
                /\ \A i, j \in 0..(n - 1) :
                       MatrizPlegada[i][j] = entrada.matriz_base[i][j]
                /\ \A t \in 0..(n - 1) :
                       /\ EsMinimoOInfactible(MatrizPlegada[n][t], CostosDesdeDepositos(t))
                       /\ EsMinimoOInfactible(MatrizPlegada[t][n], CostosHaciaDepositos(t)))
    /\ [][entrada' = entrada]_vars

\* a file with two depots has been loaded: the legs from the depots to trip
\* 0 cost 2 and 1, the legs back are both at or above the sentinel
C21_Witness ==
    /\ pc = "resolver_vsp"
    /\ entrada.via = "archivos"
    /\ Len(entrada.vehiculos) = 2
    /\ entrada.matriz_base[2][0] = 2
    /\ entrada.matriz_base[3][0] = 1
    /\ entrada.matriz_base[0][2] = INFACTIBLE + 1
    /\ entrada.matriz_base[0][3] = INFACTIBLE
    /\ MatrizPlegada[2][0] = 1
    /\ MatrizPlegada[0][2] = INFACTIBLE
    /\ instancia.matriz_costos[0][2] = INFACTIBLE

----------------------------------------------------------------------------
(* Properties of repeated solves *)

----------------------------------------------------------------------------
(* Properties of the steps of a solve *)

\* the entries of a appear in b in the same order
RECURSIVE EsSubsecuencia(_, _)
EsSubsecuencia(a, b) ==
    IF a = << >> THEN TRUE
    ELSE IF b = << >> THEN FALSE
    ELSE IF Head(a) = Head(b) THEN EsSubsecuencia(Tail(a), Tail(b))
    ELSE EsSubsecuencia(a, Tail(b))

\* C25: every step of a solve, in both schedulers, is monotonic: the set of
\* assigned tasks only grows, no route disappears, and the sequence of
\* every route before the step is a subsequence of its sequence after the
\* step (no task is removed, moved to another route or reordered).
C25_PasosMonotonos ==
    /\ [][(pc = "ciclo" \/ pc = "finalizar") =>
             (/\ solucion.viajes_asignados \subseteq solucion'.viajes_asignados
              /\ Len(solucion'.rutas) = Len(solucion.rutas)
              /\ \A r \in DOMAIN solucion.rutas :
                     EsSubsecuencia(solucion.rutas[r].viajes,
                                    solucion'.rutas[r].viajes))]_vars
    /\ [][pc = "ciclo_vsp" =>
             (/\ solucion.servicios_asignados \subseteq solucion'.servicios_asignados
              /\ Len(solucion'.rutas) >= Len(solucion.rutas)
              /\ \A r \in DOMAIN solucion.rutas :
                     EsSubsecuencia(solucion.rutas[r].servicios,
                                    solucion'.rutas[r].servicios))]_vars

\* the MDVSP loop has committed three trips, one after the other, to the
\* same route, at a cost below the sentinel
C25_Witness ==
    /\ pc = "ciclo"
    /\ iteraciones = 3
    /\ \E r \in DOMAIN solucion.rutas :
           /\ Len(solucion.rutas[r].viajes) = 3
           /\ solucion.rutas[r].costo_total < INFACTIBLE

----------------------------------------------------------------------------
(* Properties of the instance during a solve *)

\* the start and end times of the tasks of an instance, by task id
TiemposDeTareas(tareas) ==
    [i \in DOMAIN tareas |-> <<tareas[i].tiempo_inicio, tareas[i].tiempo_fin>>]

\* what a scheduler reads of the MDVSP instance: the arc costs, the times of
\* the trips and the vehicles of each depot
DatosLeidosMDVSP(inst) ==
    <<inst.matriz_viajes, TiemposDeTareas(inst.viajes),
      [d \in DOMAIN inst.depositos |-> inst.depositos[d].numero_vehiculos]>>

\* what a scheduler reads of the VSP instance
DatosLeidosVSP(inst) ==
    <<inst.matriz_costos, TiemposDeTareas(inst.servicios),
      inst.deposito.numero_vehiculos>>

\* C26: no step taken while an instance exists (the start of a solve, a pass
\* of either loop, the final metrics, a RuntimeError out of the VSP solve, a
\* later call on the same instance) changes the arc-cost matrix, the start
\* and end times of the tasks or the vehicle counts of the depots.
C26_InstanciaNoCambia ==
    /\ [][InstanciaCargadaMDVSP =>
             DatosLeidosMDVSP(instancia') = DatosLeidosMDVSP(instancia)]_vars
    /\ [][InstanciaCargadaVSP =>
             DatosLeidosVSP(instancia') = DatosLeidosVSP(instancia)]_vars

\* a VSP solve has failed after opening a route, and the instance still is
\* what the loader built from the files
C26_Witness ==
    /\ pc = "error_vsp"
    /\ Len(solucion.rutas) >= 1
    /\ entrada.via = "cargador"
    /\ DatosLeidosVSP(instancia) = DatosLeidosVSP(InstanciaVSP(entrada))
----------------------------------------------------------------------------
(* Properties of the order of the VSP solve *)

\* the key by which a strategy ranks service i, read off the service's times
ClaveDeEstrategia(i) ==
    LET inicio == instancia.servicios[i].tiempo_inicio
        fin == instancia.servicios[i].tiempo_fin
    IN CASE estrategia = "tiempo_inicio" -> <<inicio, 0>>
         [] estrategia = "tiempo_fin" -> <<fin, 0>>
         [] estrategia = "duracion" -> <<fin - inicio, 0>>
         [] estrategia = "mixta" -> <<inicio, fin - inicio>>

\* the services the loop has handed to _procesar_servicio so far
ServiciosProcesados == {servicios_ordenados[k] : k \in 1..procesados}

\* C27: while the VSP loop runs and when it has ended, the processing order
\* lists every service once, by nondecreasing key of the strategy (start,
\* end, duration, or start then duration) and by ascending id among equal
\* keys; the services placed so far are the first ones of that order, each
\* pass places the next one, and the order does not change between passes;
\* a call with an unknown strategy name ends in an error with no service
\* placed and never enters the loop.
C27_OrdenFijoPorEstrategia ==
    /\ [](pc \in {"ciclo_vsp", "retorno_vsp"} =>
             /\ estrategia \in Estrategias
             /\ Len(servicios_ordenados) = instancia.numero_servicios
             /\ {servicios_ordenados[k] : k \in DOMAIN servicios_ordenados}
                    = 0..(instancia.numero_servicios - 1)
             /\ \A k \in DOMAIN servicios_ordenados :
                    \A l \in DOMAIN servicios_ordenados :
                        k < l =>
                            LET a == ClaveDeEstrategia(servicios_ordenados[k])
                                b == ClaveDeEstrategia(servicios_ordenados[l])
                            IN \/ a[1] < b[1]
                               \/ a[1] = b[1] /\ a[2] < b[2]
                               \/ a = b /\ servicios_ordenados[k] < servicios_ordenados[l]
             /\ solucion.servicios_asignados = ServiciosProcesados)
    /\ [](pc = "error_estrategia" =>
             /\ estrategia \notin Estrategias
             /\ solucion.rutas = << >>
             /\ solucion.servicios_asignados = {})
    /\ [][(pc = "ciclo_vsp" /\ pc' \in {"ciclo_vsp", "retorno_vsp"}) =>
             (/\ servicios_ordenados' = servicios_ordenados
              /\ estrategia' = estrategia
              /\ (procesados' # procesados =>
                      /\ procesados' = procesados + 1
                      /\ solucion'.servicios_asignados =
                             solucion.servicios_asignados \cup {ServicioEnTurno}
                      /\ ServicioEnTurno \notin solucion.servicios_asignados))]_vars
    /\ [][(pc = "resolver_vsp" /\ estrategia' \notin Estrategias) =>
             pc' = "error_estrategia"]_vars

\* the duration strategy has ordered three services of which the first and
\* the third of the timetable last equally long, the first one starting
\* later, and has placed the two of them
C27_Witness ==
    /\ pc = "ciclo_vsp"
    /\ estrategia = "duracion"
    /\ instancia.numero_servicios = 3
    /\ instancia.servicios[0].tiempo_inicio > instancia.servicios[2].tiempo_inicio
    /\ ClaveDeEstrategia(0) = ClaveDeEstrategia(2)
    /\ ClaveDeEstrategia(2)[1] < ClaveDeEstrategia(1)[1]
    /\ servicios_ordenados = <<0, 2, 1>>
    /\ procesados = 2
    /\ solucion.servicios_asignados = {0, 2}
----------------------------------------------------------------------------
(* Properties of the solution resolver returns *)

\* how many times service i occurs in the routes of the solution
Apariciones(i) ==
    SumSeq([r \in DOMAIN solucion.rutas |->
               Cardinality({k \in DOMAIN solucion.rutas[r].servicios :
                               solucion.rutas[r].servicios[k] = i})])

\* C29: when resolver, called with one strategy, has returned: every service
\* 0..numero_servicios-1 occurs once in the routes and is recorded as
\* assigned, the routes hold no other id, es_factible is true, no route is
\* empty, and numero_vehiculos_usados is the number of routes.
C29_RetornoCompleto ==
    (pc = "retorno_vsp" /\ punto_entrada = "resolver") =>
        /\ \A i \in 0..(instancia.numero_servicios - 1) : Apariciones(i) = 1
        /\ \A r \in DOMAIN solucion.rutas :
               \A k \in DOMAIN solucion.rutas[r].servicios :
                   solucion.rutas[r].servicios[k] \in 0..(instancia.numero_servicios - 1)
        /\ solucion.servicios_asignados = 0..(instancia.numero_servicios - 1)
        /\ solucion.es_factible = TRUE
        /\ \A r \in DOMAIN solucion.rutas : Len(solucion.rutas[r].servicios) > 0
        /\ solucion.numero_vehiculos_usados = Len(solucion.rutas)

\* resolver has returned three services in two routes
C29_Witness ==
    /\ pc = "retorno_vsp"
    /\ punto_entrada = "resolver"
    /\ instancia.numero_servicios = 3
    /\ Len(solucion.rutas) = 2
    /\ solucion.numero_vehiculos_usados = 2
    /\ solucion.es_factible = TRUE
----------------------------------------------------------------------------
(* Properties of the services of a VSP instance *)

\* two time windows <<start, end>> share more than an end point
VentanasSeTraslapan(v, w) == v[1] < w[2] /\ w[1] < v[2]

\* two services of the timetable handed to the loader or to VSPData overlap
EntradaConTraslape ==
    \E i \in DOMAIN entrada.tiempos : \E j \in DOMAIN entrada.tiempos :
        i # j /\ VentanasSeTraslapan(entrada.tiempos[i], entrada.tiempos[j])

\* C30: whichever way a VSP instance is built (the loader on either file
\* format, or VSPData on the caller's data) and whatever the matrix holds,
\* a timetable with two overlapping services ends in an error and no
\* instance; so the services of every instance that exists are pairwise
\* non-overlapping.
C30_TraslapeImpideInstancia ==
    /\ [][(pc = "cargar_vsp" /\ EntradaConTraslape) =>
             (pc' = "error_carga_vsp" /\ instancia' = Ninguna)]_vars
    /\ [](InstanciaCargadaVSP =>
             \A i \in DOMAIN instancia.servicios :
                 \A j \in DOMAIN instancia.servicios :
                     i # j =>
                         ~VentanasSeTraslapan(
                             <<instancia.servicios[i].tiempo_inicio,
                               instancia.servicios[i].tiempo_fin>>,
                             <<instancia.servicios[j].tiempo_inicio,
                               instancia.servicios[j].tiempo_fin>>))

\* the construction has failed on a timetable whose only fault is that its
\* second service starts before its first one ends: each service has a
\* positive duration and the matrix has the right size and no forbidden cell
C30_Witness ==
    /\ pc = "error_carga_vsp"
    /\ instancia = Ninguna
    /\ entrada.via = "directo"
    /\ entrada.tiempos[0] = <<1, 3>>
    /\ entrada.tiempos[1] = <<0, 2>>
    /\ DOMAIN entrada.matriz_base = 0..entrada.numero_servicios
    /\ \A i \in DOMAIN entrada.matriz_base :
           /\ DOMAIN entrada.matriz_base[i] = 0..entrada.numero_servicios
           /\ \A j \in DOMAIN entrada.matriz_base[i] :
                  entrada.matriz_base[i][j] = CostoBase
====
